---------------------------- MODULE Spec2Model ----------------------------
(***************************************************************************)
(* State-machine model of stream_viewer/buffers/stream_data_buffers.py:    *)
(* TimeSeriesBuffer (Scroll / Sweep) and MergeLastOnlyBuffer.              *)
(*                                                                         *)
(* Time is counted in integer ticks, TicksPerSecond ticks to the second,   *)
(* so that one sample period of every modelled rate is a whole number of   *)
(* ticks and timestamps may fall between two expected sample times.        *)
(* Sample values are exact rationals <<num, den>>; <<0, 0>> is NaN.        *)
(* Array indices are 0-based as in the source; At translates them.      *)
(***************************************************************************)
EXTENDS Integers, Sequences, FiniteSets, TLC

VARIABLES
    obj,            \* which buffer class the behaviour exercises
    mode,           \* TimeSeriesBuffer._mode
    srate,          \* TimeSeriesBuffer._srate (None, 0 = irregular, or Hz)
    duration,       \* TimeSeriesBuffer._duration, in ticks
    extend_write,   \* TimeSeriesBuffer._extend_write
    data,           \* TimeSeriesBuffer._data : rows (channels) of slots
    tvec,           \* TimeSeriesBuffer._tvec
    write_idx,      \* TimeSeriesBuffer._write_idx
    markers,        \* TimeSeriesBuffer._markers
    marker_ts,      \* TimeSeriesBuffer._marker_ts
    m_data,         \* MergeLastOnlyBuffer._data
    m_tvec,         \* MergeLastOnlyBuffer._tvec
    is_numeric,     \* whether the stream's payload dtype is numeric (else text)
    chan_states,    \* the renderer's channel table: rows [src, vis]
    newest,         \* history: <<timestamp of the newest sample committed to the
                    \* TimeSeriesBuffer since its last reset>>, or <<>>
    call,           \* the call that has just returned: name, arguments, raised
    pre,            \* <<the object as it was when that call was made>>
    frozen,             \* RendererFormatData._frozen
    flush_on_unfreeze,  \* RendererFormatData._flush_on_unfreeze
    data_sources,       \* RendererFormatData._data_sources (source identifiers)
    buffers,            \* RendererFormatData._buffers, one per source
    timer_active,       \* whether the display mix-in's render timer is running
    monitor_mode,       \* the sources whose monitor_mode is set
    auto_timer,         \* the sources whose own data timer is running
    plot_mode,          \* RendererBufferData._plot_mode
    r_duration,         \* RendererBufferData._duration, in ticks
    connected,          \* the sources whose state_changed signal is connected
                        \* to handle_source_changed
    srcs                \* the LSLDataSource objects, by identifier

vars == <<obj, mode, srate, duration, extend_write, data, tvec, write_idx,
          markers, marker_ts, m_data, m_tvec,
          is_numeric, chan_states, newest, call, pre,
          frozen, flush_on_unfreeze, data_sources, buffers, timer_active,
          monitor_mode, auto_timer, plot_mode, r_duration, connected, srcs>>

ts_vars == <<mode, srate, duration, extend_write, data, tvec, write_idx,
             markers, marker_ts>>

merge_vars == <<m_data, m_tvec>>

coord_state == <<frozen, flush_on_unfreeze, data_sources, buffers, timer_active,
                 monitor_mode, auto_timer, plot_mode, r_duration, connected>>

coord_vars == <<coord_state, srcs>>

-----------------------------------------------------------------------------
(* Bounds of the model.                                                    *)

MaxTime == 9       \* timestamps and reset anchors range over 0..MaxTime
MaxVal == 3        \* sample values range over 1..MaxVal
MaxBurst == 7      \* longest in-order nominal-rate chunk
MaxMarkers == 2    \* an update is not delivered once this many markers are buffered
MaxMergeTime == 3  \* timestamps delivered to the snapshot buffer range over 0..MaxMergeTime
MaxCycles == 2     \* a renderer's buffer takes at most this many updates between resets
MaxPending == 2    \* samples waiting in a source's inlet
MaxSinceEmit == 3  \* samples counted by a source between two emissions of its rate

(* Program constant and the time scale derived from it.                    *)

IRREG_RATE_OVERRIDE == 1000

TicksPerSecond == 2 * IRREG_RATE_OVERRIDE

\* An optional argument is <<>> when omitted (None) and <<x>> when given.
None == <<>>

Some(x) == <<x>>

Rates == {0, 1000}

Durations == {4, 5}

Times == 0..MaxTime

MergeTimes == 0..MaxMergeTime

-----------------------------------------------------------------------------
(* numpy float arithmetic on exact rationals, NaN propagating.             *)

NaN == <<0, 0>>

Num(k) == <<k, 1>>

IsNaN(x) == x[2] = 0

Abs(n) == IF n < 0 THEN -n ELSE n

RECURSIVE GCD(_, _)
GCD(a, b) == IF b = 0 THEN a ELSE GCD(b, a % b)

Norm(n, d) == LET g == GCD(Abs(n), d) IN <<n \div g, d \div g>>

Add(x, y) == IF IsNaN(x) \/ IsNaN(y) THEN NaN
             ELSE Norm(x[1] * y[2] + y[1] * x[2], x[2] * y[2])

Sub(x, y) == IF IsNaN(x) \/ IsNaN(y) THEN NaN
             ELSE Norm(x[1] * y[2] - y[1] * x[2], x[2] * y[2])

\* x * (k / m), m > 0
Scale(x, k, m) == IF IsNaN(x) THEN NaN ELSE Norm(x[1] * k, x[2] * m)

CeilDiv(a, b) == -((-a) \div b)

Min(a, b) == IF a < b THEN a ELSE b

Max(a, b) == IF a > b THEN a ELSE b

-----------------------------------------------------------------------------
(* numpy array primitives on sequences, 0-based indices.                   *)

\* a[i] with Python's negative indices
At(a, i) == IF i < 0 THEN a[Len(a) + i + 1] ELSE a[i + 1]

\* np.searchsorted(a, v, side='left') on a sorted array
searchsorted_left(a, v) == Cardinality({i \in 1..Len(a) : a[i] < v})

\* np.searchsorted(a, v, side='right') on a sorted array
searchsorted_right(a, v) == Cardinality({i \in 1..Len(a) : a[i] <= v})

\* a[b]: the elements of a selected by the boolean mask b
RECURSIVE Mask(_, _)
Mask(a, b) == IF a = <<>> THEN <<>>
              ELSE IF Head(b) THEN <<Head(a)>> \o Mask(Tail(a), Tail(b))
              ELSE Mask(Tail(a), Tail(b))

\* a[:, cols] for a 2-D array held as a sequence of rows
Cols(d, colmask) == [r \in 1..Len(d) |-> Mask(d[r], colmask)]

\* a[-n:] (the last n elements, all of them when n >= len)
LastN(a, n) == IF n >= Len(a) THEN a ELSE SubSeq(a, Len(a) - n + 1, Len(a))

\* vis.sum()
VisCount(vis) == Cardinality({i \in 1..Len(vis) : vis[i]})

\* data.shape[1] of a 2-D array (0 for the empty array [[]])
NCols(d) == IF Len(d) = 0 THEN 0 ELSE Len(d[1])

\* np.argsort(timestamps): positions in ascending order of timestamp
\* (insertion sort, ties in delivery order)
RECURSIVE InsertIx(_, _, _)
InsertIx(sorted, ix, t) ==
    IF sorted = <<>> THEN <<ix>>
    ELSE IF t[ix] < t[Head(sorted)] THEN <<ix>> \o sorted
    ELSE <<Head(sorted)>> \o InsertIx(Tail(sorted), ix, t)

RECURSIVE ArgsortUpTo(_, _)
ArgsortUpTo(t, k) == IF k = 0 THEN <<>>
                     ELSE InsertIx(ArgsortUpTo(t, k - 1), k, t)

\* mutant of argsort: the chunk is taken in delivery order
argsort_unsorted(t) == [i \in 1..Len(t) |-> i]

argsort(t) == ArgsortUpTo(t, Len(t))

\* the elements of a taken at the 0-based positions ix
Take(a, ix) == [j \in 1..Len(ix) |-> a[ix[j]]]

\* the set of values of a sequence
Range(a) == {a[i] : i \in 1..Len(a)}

SetMax(S) == CHOOSE x \in S : \A y \in S : y <= x

SetMin(S) == CHOOSE x \in S : \A y \in S : x <= y

\* a finite set of integers as an ascending sequence
RECURSIVE SortedSeq(_)
SortedSeq(S) == IF S = {} THEN <<>>
                ELSE LET m == SetMin(S) IN <<m>> \o SortedSeq(S \ {m})

-----------------------------------------------------------------------------
(* TimeSeriesBuffer. b is the object ("self") as a record of its fields.   *)

Self == [mode |-> mode, srate |-> srate, duration |-> duration,
         extend_write |-> extend_write, data |-> data, tvec |-> tvec,
         write_idx |-> write_idx, markers |-> markers, marker_ts |-> marker_ts]

\* srate = self.IRREG_RATE_OVERRIDE if self._srate == 0 else self._srate
EffRate(sr) == IF sr = 0 THEN IRREG_RATE_OVERRIDE ELSE sr

\* 1 / srate, in ticks
Period(b) == TicksPerSecond \div EffRate(b.srate)

\* mutant of Capacity: the sample count is rounded down
Capacity_floor(sr, dur) == (EffRate(sr) * dur) \div TicksPerSecond

\* n_samps = int(np.ceil(srate * self._duration))
Capacity(sr, dur) == CeilDiv(EffRate(sr) * dur, TicksPerSecond)

\* mutant of SweepTvec: t0 is not snapped to the start of its duration bucket
SweepTvec_unaligned(t0, dur, n, p) == [i \in 1..n |-> t0 + (i - 1) * p]

\* Sweep: t0 -= (t0 % self._duration); self._tvec = t0 + (np.arange(n_samples) / srate)
SweepTvec(t0, dur, n, p) == [i \in 1..n |-> (t0 - (t0 % dur)) + (i - 1) * p]

\* mutant of ScrollTvec: the reversal [::-1] forgotten
ScrollTvec_unreversed(t0, n, p) == [i \in 1..n |-> t0 - (i - 1) * p]

\* Scroll: self._tvec = t0 - (np.arange(n_samples)[::-1] / srate)
ScrollTvec(t0, n, p) == [i \in 1..n |-> t0 - (n - i) * p]

\* mutant of CursorAt: the cursor formula of the line commented out above it,
\* (np.searchsorted(self._tvec, t_now) + 1) % n_samples
CursorAt_next(tv, t_now) == (searchsorted_left(tv, t_now) + 1) % Len(tv)

\* int((np.searchsorted(self._tvec, t_now, side='right') - 1) % (n_samples or np.inf))
CursorAt(tv, t_now) == (searchsorted_right(tv, t_now) - 1) % Len(tv)

\* TimeSeriesBuffer._reset_tvec (called with n_samples > 0 when t0 is given)
reset_tvec(b, t0) ==
    IF t0 = None THEN [b EXCEPT !.tvec = <<>>]
    ELSE LET n_samples == NCols(b.data)
             t_now == t0[1]
             tv == IF b.mode = "Sweep"
                   THEN SweepTvec(t_now, b.duration, n_samples, Period(b))
                   ELSE ScrollTvec(t_now, n_samples, Period(b))
         IN [b EXCEPT !.tvec = tv, !.write_idx = CursorAt(tv, t_now)]

\* mutant of reset: the "* np.nan" is dropped and data is zero-filled
reset_zeros(b, n_chans, t0, sr_arg, dur_arg) ==
    LET sr == IF sr_arg = 0 THEN b.srate ELSE sr_arg
        dur == IF dur_arg = 0 THEN b.duration ELSE dur_arg
        b1 == [b EXCEPT !.srate = sr, !.duration = dur,
                        !.data = [r \in 1..n_chans |->
                                     [i \in 1..Capacity(sr, dur) |-> Num(0)]]]
    IN reset_tvec(b1, t0)

\* mutant of reset: the buffered markers are dropped with the data
reset_dropping_markers(b, n_chans, t0, sr_arg, dur_arg) ==
    LET sr == IF sr_arg = 0 THEN b.srate ELSE sr_arg
        dur == IF dur_arg = 0 THEN b.duration ELSE dur_arg
        n_samps == Capacity(sr, dur)
        b1 == [b EXCEPT !.srate = sr, !.duration = dur,
                        !.data = [r \in 1..n_chans |-> [i \in 1..n_samps |-> NaN]],
                        !.markers = <<>>, !.marker_ts = <<>>]
    IN reset_tvec(b1, t0)

\* TimeSeriesBuffer.reset; a falsy srate or duration argument (omitted, or 0)
\* is passed as 0 and keeps the current one: "srate or self._srate"
reset(b, n_chans, t0, sr_arg, dur_arg) ==
    LET sr == IF sr_arg = 0 THEN b.srate ELSE sr_arg
        dur == IF dur_arg = 0 THEN b.duration ELSE dur_arg
        n_samps == Capacity(sr, dur)
        b1 == [b EXCEPT !.srate = sr, !.duration = dur,
                        !.data = [r \in 1..n_chans |-> [i \in 1..n_samps |-> NaN]]]
    IN reset_tvec(b1, t0)

\* write_inds = np.searchsorted(self._tvec, timestamps, side='right') - 1
WriteInds(tv, ts) == [j \in 1..Len(ts) |-> searchsorted_right(tv, ts[j]) - 1]

\* interp = bef + (aft - bef) * (np.arange(n_interp + 2) / (n_interp + 1)), column j
Interp(bef, aft, j, n_interp) == Add(bef, Scale(Sub(aft, bef), j, n_interp + 1))

\* mutant of AdvanceCursor: the cursor is not taken modulo the buffer width
AdvanceCursor_unwrapped(b, new_write_idx) ==
    IF b.srate # 0 /\ new_write_idx >= Len(b.tvec)
    THEN reset_tvec(b, Some(At(b.tvec, -1) + Period(b)))
    ELSE [b EXCEPT !.write_idx = new_write_idx]

\* new_write_idx = np.max(overwritten_idx) + 1, then the re-anchoring of the
\* time vector when the cursor passes the end (regular rates only:
\* "if self._srate and ...")
AdvanceCursor(b, new_write_idx) ==
    IF b.srate # 0 /\ new_write_idx >= Len(b.tvec)
    THEN reset_tvec(b, Some(At(b.tvec, -1) + Period(b)))
    ELSE [b EXCEPT !.write_idx = new_write_idx % NCols(b.data)]

\* TimeSeriesBuffer._insert_sweep; d has the rows of the buffer
insert_sweep(b, d, ts) ==
    IF Len(ts) = 0 THEN b
    ELSE
    LET n == NCols(b.data)
        k == Len(ts)
        rows == 1..Len(b.data)
        write_inds == WriteInds(b.tvec, ts)
        \* self._data[:, write_inds] = data[:]  (a repeated index keeps the last)
        d1 == [r \in rows |-> [i \in 1..n |->
                 LET js == {j \in 1..k : write_inds[j] % n = i - 1}
                 IN IF js = {} THEN b.data[r][i] ELSE d[r][SetMax(js)]]]
        skipped_inds == SortedSeq({s \in write_inds[1]..write_inds[k] :
                                      s \notin Range(write_inds)})
        read_inds == [q \in 1..Len(skipped_inds) |->
                         searchsorted_left(ts, At(b.tvec, skipped_inds[q]))]
        d2 == [r \in rows |-> [i \in 1..n |->
                 IF \E q \in 1..Len(skipped_inds) : skipped_inds[q] = i - 1
                 THEN LET q == CHOOSE q \in 1..Len(skipped_inds) : skipped_inds[q] = i - 1
                      IN d[r][read_inds[q] + 1]
                 ELSE d1[r][i]]]
        overwritten_idx == Range(write_inds) \cup Range(skipped_inds)
        first_overwrite == SetMin(overwritten_idx)
        n_interp == Min(first_overwrite, first_overwrite - b.write_idx)
        prev_write == first_overwrite - n_interp - 1
        d3 == IF b.write_idx < first_overwrite
              THEN [r \in rows |-> [i \in 1..n |->
                      IF i - 1 >= b.write_idx /\ i - 1 < b.write_idx + n_interp
                      THEN Interp(At(d2[r], prev_write), At(d2[r], first_overwrite),
                                  i - b.write_idx, n_interp)
                      ELSE d2[r][i]]]
              ELSE d2
    IN AdvanceCursor([b EXCEPT !.data = d3], SetMax(overwritten_idx) + 1)

\* last_write_time of update
last_write_time(b) ==
    IF b.mode = "Sweep" THEN At(b.tvec, b.write_idx) - Period(b)
    ELSE At(b.tvec, -1)

\* b_new = timestamps > last_write_time (everything is kept without ignore_old)
StaleFilter(ts, lwt, ignore_old) == [j \in 1..Len(ts) |-> ignore_old => ts[j] > lwt]

\* n_fill_samples = int(np.ceil(elapsed * srate))
NFill(b, ts, lwt) == CeilDiv((At(ts, -1) - lwt) * EffRate(b.srate), TicksPerSecond)

\* fill_tvec = last_write_time + (1 + np.arange(n_fill_samples)) / srate
FillTvec(b, ts, lwt) == [i \in 1..NFill(b, ts, lwt) |-> lwt + i * Period(b)]

\* the column of the buffer whose value is carried into the first fill sample:
\* self._data[:, max(0, self._write_idx - 1)]
CarryIndex(b) == Max(0, b.write_idx - 1)

\* "Convert irregular data to continuous": the dense series replacing the
\* incoming events, and the markers of a non-numeric payload
Synth(b, lwt, d, ts, numeric) ==
    LET n_fill == NFill(b, ts, lwt)
        fill_tvec == FillTvec(b, ts, lwt)
        idx == [j \in 1..Len(ts) |-> searchsorted_left(fill_tvec, ts[j])]
        \* fill_data[:, idx] = data, then fill_data[:, 0] = the carried value
        placed(r, i) == LET js == {j \in 1..Len(ts) : idx[j] = i}
                        IN IF i = 0 /\ idx[1] > 0 THEN At(b.data[r], CarryIndex(b))
                           ELSE IF js = {} THEN Num(0)
                           ELSE d[r][SetMax(js)]
        \* prev[idx] = idx; prev = np.maximum.accumulate(prev)
        prev(i) == SetMax({0} \cup {idx[j] : j \in {j \in 1..Len(ts) : idx[j] <= i}})
    IN IF numeric
       THEN [data |-> [r \in 1..Len(d) |-> [i \in 1..n_fill |-> placed(r, prev(i - 1))]],
             timestamps |-> fill_tvec, markers |-> <<>>, marker_ts |-> <<>>]
       ELSE [data |-> [r \in 1..Len(d) |-> [i \in 1..n_fill |->
                         IF \E j \in 1..Len(ts) : idx[j] = i - 1 THEN Num(1) ELSE Num(0)]],
             timestamps |-> fill_tvec, markers |-> d[1], marker_ts |-> ts]

\* mutant of ScrollShift: the old contents are not shifted back
ScrollShift_unshifted(old, new) ==
    LET n == Len(old)
        n_samples == Len(new)
    IN [i \in 1..n |-> IF i <= n - n_samples THEN old[i]
                       ELSE new[i - (n - n_samples)]]

\* Scroll write: shift left by n_samples, write the chunk into the trailing slots
ScrollShift(old, new) ==
    LET n == Len(old)
        n_samples == Len(new)
    IN [i \in 1..n |-> IF i <= n - n_samples THEN old[i + n_samples]
                       ELSE new[i - (n - n_samples)]]

scroll_write(b, d, ts) ==
    [b EXCEPT !.data = [r \in 1..Len(b.data) |-> ScrollShift(b.data[r], d[r])],
              !.tvec = ScrollShift(b.tvec, ts)]

\* b_wrap = timestamps > (self._tvec[-1] + 1 / srate)
WrapMask(b, ts) == [j \in 1..Len(ts) |-> ts[j] > At(b.tvec, -1) + Period(b)]

Not(mask) == [j \in 1..Len(mask) |-> ~mask[j]]

AnyOf(mask) == \E j \in 1..Len(mask) : mask[j]

\* the write-cursor indicator: nan-out the slots ahead of the leading edge
indicate_write(b) ==
    LET n == NCols(b.data)
        n_write_ahead == IF n <= 2 THEN 0
                         ELSE IF b.srate > 0 THEN Max(1, n \div 100)
                         ELSE 1
        lead_idx == {(b.write_idx + a) % n : a \in 0..(n_write_ahead - 1)}
    IN IF \E i \in lead_idx : i # 0      \* np.any(lead_idx)
       THEN [b EXCEPT !.data = [r \in 1..Len(b.data) |-> [i \in 1..n |->
                        IF (i - 1) \in lead_idx THEN NaN ELSE b.data[r][i]]]]
       ELSE b

\* "Delete any markers that are older than self._duration", then append
prune_markers(b, new_markers, new_marker_ts) ==
    IF \E j \in 1..Len(new_marker_ts) : new_marker_ts[j] # 0   \* np.any(_marker_ts)
    THEN LET oldest == SetMin(Range(new_marker_ts))
             keep == [j \in 1..Len(b.marker_ts) |->
                         ~((oldest - b.marker_ts[j]) > b.duration)]
         IN [b EXCEPT !.marker_ts = Mask(b.marker_ts, keep) \o new_marker_ts,
                      !.markers = Mask(b.markers, keep) \o new_markers]
    ELSE b

sweep_write(b, d, ts, new_markers, new_marker_ts) ==
    LET b_wrap == WrapMask(b, ts)
        b1 == IF AnyOf(Not(b_wrap))
              THEN insert_sweep(b, Cols(d, Not(b_wrap)), Mask(ts, Not(b_wrap)))
              ELSE b
        ts_w == Mask(ts, b_wrap)
        b2 == IF AnyOf(b_wrap)
              THEN insert_sweep(reset_tvec(b1, Some(ts_w[1])), Cols(d, b_wrap), ts_w)
              ELSE b1
        b3 == IF b.extend_write THEN indicate_write(b2) ELSE b2
    IN prune_markers(b3, new_markers, new_marker_ts)

\* the chunk as update works on it after dropping the hidden channels and
\* sorting the columns by ascending timestamp
Sorted(c, vis) ==
    LET re_ix == argsort(c.timestamps)
        d == Mask(c.data, vis)
    IN [timestamps |-> Take(c.timestamps, re_ix),
        data |-> [r \in 1..Len(d) |-> Take(d[r], re_ix)]]

\* "if self._tvec.size == 0: self._reset_tvec(timestamps[0] - 1 / srate)"
Anchor(b, ts) == IF Len(b.tvec) = 0 THEN reset_tvec(b, Some(ts[1] - Period(b))) ELSE b

\* update raises before it changes the buffer: on a buffer without columns
\* (_reset_tvec: int(-1 % inf)), and for an irregular stream when the fill
\* timeline is empty (fill_data[:, idx] on zero columns; only without ignore_old)
update_raises(b, c, vis, ignore_old) ==
    /\ Len(c.timestamps) > 0
    /\ \/ NCols(b.data) = 0
       \/ /\ b.srate = 0
          /\ Len(b.tvec) > 0
          /\ ~ignore_old
          /\ NFill(b, Sorted(c, vis).timestamps, last_write_time(b)) <= 0

\* "Drop the oldest data that cant be visualized" and reset the buffer
Overflow(b, vis, d, ts) ==
    LET n_buffer_samples == NCols(b.data)
    IN IF Len(ts) > n_buffer_samples
       THEN LET ts_t == LastN(ts, n_buffer_samples)
            IN [b |-> reset(b, VisCount(vis), Some(ts_t[1]), 0, 0),
                data |-> [r \in 1..Len(d) |-> LastN(d[r], n_buffer_samples)],
                timestamps |-> ts_t]
       ELSE [b |-> b, data |-> d, timestamps |-> ts]

\* the timestamps that survive "Drop any timestamps that happened before the
\* last rendered sample", in ascending order
Kept(b, c, vis, ignore_old) ==
    IF Len(c.timestamps) = 0 THEN <<>>
    ELSE LET s == Sorted(c, vis)
         IN Mask(s.timestamps,
                 StaleFilter(s.timestamps,
                             last_write_time(Anchor(b, s.timestamps)), ignore_old))

\* TimeSeriesBuffer.update past "if timestamps.size == 0: return", when it
\* does not raise
update_nonempty(b, c, vis, ignore_old) ==
    LET s == Sorted(c, vis)
        b1 == Anchor(b, s.timestamps)
        lwt == last_write_time(b1)
        b_new == StaleFilter(s.timestamps, lwt, ignore_old)
    IN IF ignore_old /\ ~AnyOf(b_new) THEN b1
       ELSE
       LET ts2 == Mask(s.timestamps, b_new)
           d2 == Cols(s.data, b_new)
           syn == IF b1.srate = 0 THEN Synth(b1, lwt, d2, ts2, c.numeric)
                  ELSE [data |-> d2, timestamps |-> ts2,
                        markers |-> <<>>, marker_ts |-> <<>>]
           o == Overflow(b1, vis, syn.data, syn.timestamps)
       IN IF b1.mode # "Sweep"
          THEN scroll_write(o.b, o.data, o.timestamps)
          ELSE sweep_write(o.b, o.data, o.timestamps, syn.markers, syn.marker_ts)

\* mutant of update: an empty fetch resets the buffer instead of returning
update_empty_resets(b, c, vis, ignore_old) ==
    IF Len(c.timestamps) = 0 THEN reset(b, VisCount(vis), None, 0, 0)
    ELSE update_nonempty(b, c, vis, ignore_old)

\* TimeSeriesBuffer.update, when it does not raise
update(b, c, vis, ignore_old) ==
    IF Len(c.timestamps) = 0 THEN b
    ELSE update_nonempty(b, c, vis, ignore_old)

-----------------------------------------------------------------------------
(* MergeLastOnlyBuffer. m is the object as a record [data, tvec].          *)

MSelf == [data |-> m_data, tvec |-> m_tvec]

\* mutant of m_reset: one column is allocated whether or not t0 is given
m_reset_always_wide(m, n_chans, t0) ==
    [data |-> [r \in 1..n_chans |-> <<Num(0)>>],
     tvec |-> IF t0 # None THEN <<t0[1]>> ELSE <<>>]

\* MergeLastOnlyBuffer.reset
m_reset(m, n_chans, t0) ==
    LET n_samps == IF t0 # None THEN 1 ELSE 0
    IN [data |-> [r \in 1..n_chans |-> [i \in 1..n_samps |-> Num(0)]],
        tvec |-> IF t0 # None THEN <<t0[1]>> ELSE <<>>]

\* the visibility flags of a channel table, and those of one source's rows
VisOf(cs) == [i \in 1..Len(cs) |-> cs[i].vis]

\* mutant of SrcMask: the source_id is ignored, every row is taken for the source's
SrcMask_any(cs, source_id) == [i \in 1..Len(cs) |-> TRUE]

SrcMask(cs, source_id) == [i \in 1..Len(cs) |-> cs[i].src = source_id]

\* the boolean mask that selects the rows of the chunk: src_df['vis'] with a
\* source_id, b_vis without
m_row_mask(cs, source_id) ==
    IF source_id # None THEN Mask(VisOf(cs), SrcMask(cs, source_id[1]))
    ELSE VisOf(cs)

\* "if (self._data.size == 0) or (self._data.shape[0] != b_vis.sum())"
m_ensure(m, cs, ts) ==
    IF NCols(m.data) = 0 \/ Len(m.data) # VisCount(VisOf(cs))
    THEN m_reset(m, VisCount(VisOf(cs)), Some(At(ts, -1)))
    ELSE m

\* a boolean mask applied to an array of another length raises IndexError
m_update_raises(m, c, cs, source_id) ==
    /\ Len(c.timestamps) > 0
    /\ Len(c.data) # Len(m_row_mask(cs, source_id))

\* MergeLastOnlyBuffer.update up to the indexing that may raise
m_update_head(m, c, cs) ==
    IF Len(c.timestamps) = 0 THEN m
    ELSE m_ensure(m, cs, Take(c.timestamps, argsort(c.timestamps)))

\* the assignments of MergeLastOnlyBuffer.update after the sort and the reset:
\* the last column d_last of the chunk goes to the slots of the source
m_write(m1, d_last, cs, source_id) ==
    LET latest == Mask(d_last, m_row_mask(cs, source_id))
        \* b_buff: the slots of the buffer that belong to the source
        b_buff == IF source_id # None
                  THEN Mask(SrcMask(cs, source_id[1]), VisOf(cs))
                  ELSE [i \in 1..Len(m1.data) |-> TRUE]
        rank(i) == Cardinality({q \in 1..i : b_buff[q]})
    IN [i \in 1..Len(m1.data) |->
          IF b_buff[i] THEN <<latest[rank(i)]>> ELSE m1.data[i]]

\* mutant of m_update: the chunk is not sorted, the sample delivered last is kept
m_update_last_delivered(m, c, cs, source_id) ==
    IF Len(c.timestamps) = 0 THEN m
    ELSE LET m1 == m_ensure(m, cs, c.timestamps)
         IN [data |-> m_write(m1, [r \in 1..Len(c.data) |-> At(c.data[r], -1)],
                              cs, source_id),
             tvec |-> <<At(c.timestamps, -1)>>]

\* mutant of m_update: the timestamp is appended, not overwritten
m_update_appends(m, c, cs, source_id) ==
    IF Len(c.timestamps) = 0 THEN m
    ELSE LET ts == Take(c.timestamps, argsort(c.timestamps))
             m1 == m_ensure(m, cs, ts)
         IN [data |-> m_write(m1, [r \in 1..Len(c.data) |->
                                     At(Take(c.data[r], argsort(c.timestamps)), -1)],
                              cs, source_id),
             tvec |-> IF Len(m.tvec) < 2 THEN m.tvec \o <<At(ts, -1)>>
                      ELSE m.tvec]

\* MergeLastOnlyBuffer.update, when it does not raise
m_update(m, c, cs, source_id) ==
    IF Len(c.timestamps) = 0 THEN m
    ELSE
    LET re_ix == argsort(c.timestamps)
        ts == Take(c.timestamps, re_ix)
        d == [r \in 1..Len(c.data) |-> Take(c.data[r], re_ix)]
        m1 == m_ensure(m, cs, ts)
    IN [data |-> m_write(m1, [r \in 1..Len(d) |-> At(d[r], -1)], cs, source_id),
        tvec |-> <<At(ts, -1)>>]

-----------------------------------------------------------------------------
(* Inputs.                                                                 *)

Modes == {"Scroll", "Sweep"}

Row(src, vis) == [src |-> src, vis |-> vis]

\* channel tables of the one source that feeds a TimeSeriesBuffer
TSChanStates == {<<Row("A", TRUE), Row("A", FALSE), Row("A", TRUE)>>}

\* channel tables of the two sources merged into a MergeLastOnlyBuffer
MergeChanStates == {<<Row("A", TRUE), Row("B", TRUE)>>,
                    <<Row("A", TRUE), Row("A", FALSE), Row("B", TRUE)>>,
                    <<Row("A", FALSE), Row("B", TRUE), Row("B", TRUE)>>,
                    <<Row("A", TRUE), Row("B", TRUE), Row("B", TRUE)>>}

\* the value a source delivers on channel r at time t
Signal(t, r) == Num(1 + ((t + r - 1) % MaxVal))

Chunk(ts, n_rows, numeric) ==
    [timestamps |-> ts,
     data |-> [r \in 1..n_rows |-> [j \in 1..Len(ts) |-> Signal(ts[j], r)]],
     numeric |-> numeric]

\* chunks of at most two samples with arbitrary timestamps, in any order
SmallStamps == {<<>>} \cup {<<t>> : t \in Times} \cup (Times \X Times)

\* chunks for the snapshot buffer, which keeps the last sample only: at most
\* two samples, one tick apart, in any order
MergeStamps == {<<>>} \cup {<<t>> : t \in MergeTimes}
               \cup {x \in MergeTimes \X MergeTimes : x[1] - x[2] \in {-1, 0, 1}}

\* in-order chunks of n samples at the nominal rate, starting at t
BurstStamps(p) ==
    {[j \in 1..n |-> t + (j - 1) * p] :
        <<t, n>> \in {x \in Times \X (3..MaxBurst) : x[1] + (x[2] - 1) * p <= MaxTime}}

\* reset(n_chans) and reset(n_chans, t0) as the renderer and update call it,
\* and reset(n_chans, srate=, duration=) with a new rate or duration
ResetArgs == ({None} \cup {Some(t) : t \in Times}) \X {0} \X {0}
             \cup {None} \X ({0} \cup (Rates \ {0})) \X ({0} \cup Durations)

\* ignore_old is never passed by the renderers: the default is exercised
IgnoreOld == {TRUE}

NoCall == [name |-> "none"]

Idle == call.name = "none"

-----------------------------------------------------------------------------
(* LSLDataSource (data/stream_lsl.py). A source is the record of           *)
(* _inlet (whether it exists), the samples waiting in the inlet's queue,   *)
(* _pull_buffer (its number of sample rows, NoPullBuffer for None) and     *)
(* _xfer_stats['samples_since_emit']. Its monitor_mode and its data timer  *)
(* are kept in monitor_mode and auto_timer. The high-pass filter is off    *)
(* (highpass_cutoff = 0, the default), so hp_filter returns its input.     *)

Sources == {"A", "B"}

NoPullBuffer == 0

\* pylsl's default max_samples of pull_chunk
PULL_CHUNK_MAX == 1024

RECURSIVE NextPow2From(_, _)
NextPow2From(p, n) == IF p >= n THEN p ELSE NextPow2From(2 * p, n)

\* _create_inlet: the pull buffer of a stream of nominal rate sr (Hz), none for
\* an irregular stream; max(1, ceil(0.1 * sr)) rounded up to a power of two
create_pull_buffer(sr) ==
    IF sr = 0 THEN NoPullBuffer
    ELSE NextPow2From(1, (sr + 9) \div 10)

\* nominal rate of each stream: A is a slow regular stream, B is irregular
SourceRate(id) == IF id = "A" THEN 10 ELSE 0

\* LSLDataSource.__init__ given a pylsl.StreamInfo: the inlet is created
NewSource(id) ==
    [inlet |-> TRUE, queue |-> <<>>,
     pull_buffer |-> create_pull_buffer(SourceRate(id)),
     samples_since_emit |-> 0]

\* LSLDataSource.__init__ given a dict: the stream is yet to be resolved
UnresolvedSource ==
    [inlet |-> FALSE, queue |-> <<>>, pull_buffer |-> NoPullBuffer,
     samples_since_emit |-> 0]

\* LSLDataSource._refresh_resolver with a result: _create_inlet
create_inlet(s, id) ==
    [s EXCEPT !.inlet = TRUE,
              !.pull_buffer = create_pull_buffer(SourceRate(id))]

\* LSLDataSource.fetch_data(): [src |-> the source afterwards, data |-> the
\* samples returned]
src_fetch_data(s) ==
    IF ~s.inlet THEN [src |-> s, data |-> <<>>]
    ELSE IF s.pull_buffer = NoPullBuffer
    THEN LET n == Min(Len(s.queue), PULL_CHUNK_MAX)
         IN [src |-> [s EXCEPT !.queue = SubSeq(@, n + 1, Len(@))],
             data |-> SubSeq(s.queue, 1, n)]
    ELSE LET n_returned == Min(Len(s.queue), s.pull_buffer)
         IN [src |-> [s EXCEPT !.queue = SubSeq(@, n_returned + 1, Len(@)),
                               !.pull_buffer = IF n_returned = s.pull_buffer
                                               THEN 2 * @ ELSE @],
             data |-> SubSeq(s.queue, 1, n_returned)]

\* update_requested sending data_updated whatever was pulled, in either mode
src_update_requested_emitting(s, monitor, elapsed) ==
    IF ~s.inlet THEN [src |-> s, emitted |-> <<>>, rate_emitted |-> FALSE]
    ELSE LET f == src_fetch_data(s)
             s1 == IF monitor THEN [s EXCEPT !.queue = <<>>] ELSE f.src
             n_samples == IF monitor THEN Len(s.queue) ELSE Len(f.data)
             s2 == [s1 EXCEPT !.samples_since_emit = @ + n_samples]
         IN [src |-> IF elapsed THEN [s2 EXCEPT !.samples_since_emit = 0]
                     ELSE s2,
             emitted |-> <<f.data>>, rate_emitted |-> elapsed]

\* LSLDataSource.update_requested() of a source whose monitor_mode is monitor;
\* elapsed: more than _monitor_interval has passed since the last rate
\* emission. emitted is <<the chunk sent with data_updated>>, or <<>>.
src_update_requested(s, monitor, elapsed) ==
    IF ~s.inlet THEN [src |-> s, emitted |-> <<>>, rate_emitted |-> FALSE]
    ELSE LET f == src_fetch_data(s)
             s1 == IF monitor THEN [s EXCEPT !.queue = <<>>] ELSE f.src
             n_samples == IF monitor THEN Len(s.queue) ELSE Len(f.data)
             emitted == IF ~monitor /\ n_samples > 0 THEN <<f.data>> ELSE <<>>
             s2 == [s1 EXCEPT !.samples_since_emit = @ + n_samples]
         IN [src |-> IF elapsed THEN [s2 EXCEPT !.samples_since_emit = 0]
                     ELSE s2,
             emitted |-> emitted, rate_emitted |-> elapsed]

-----------------------------------------------------------------------------
(* The state after construction.                                           *)

\* no renderer is exercised: its fields stay at these values
NoRenderer ==
    /\ frozen = FALSE
    /\ flush_on_unfreeze = TRUE
    /\ data_sources = <<>>
    /\ buffers = <<>>
    /\ timer_active = FALSE
    /\ monitor_mode = {}
    /\ auto_timer = {}
    /\ plot_mode = "Scroll"
    /\ r_duration = 0
    /\ connected = {}
    /\ srcs = [id \in Sources |-> NewSource(id)]

\* Init: numeric streams. InitText: text (marker) streams, which only
\* irregular sources deliver.
Init ==
    /\ obj \in {"TimeSeriesBuffer", "MergeLastOnlyBuffer"}
    /\ IF obj = "TimeSeriesBuffer"
       THEN /\ mode \in Modes
            /\ srate \in Rates
            /\ duration \in Durations
            /\ extend_write \in (IF mode = "Sweep" THEN BOOLEAN ELSE {FALSE})
            /\ chan_states \in TSChanStates
            /\ is_numeric = TRUE
       ELSE \* no TimeSeriesBuffer is exercised: its fields stay at these values
            /\ mode = "Scroll"
            /\ srate = 0
            /\ duration = 0
            /\ extend_write = FALSE
            /\ chan_states \in MergeChanStates
            /\ is_numeric = TRUE
    /\ data = << <<>> >>          \* np.array([[]])
    /\ tvec = <<>>
    /\ write_idx = 0
    /\ markers = <<>>
    /\ marker_ts = <<>>
    /\ m_data = << <<>> >>
    /\ m_tvec = <<>>
    /\ newest = <<>>
    /\ call = NoCall
    /\ pre = <<>>
    /\ NoRenderer

Store(b) ==
    /\ mode' = b.mode
    /\ srate' = b.srate
    /\ duration' = b.duration
    /\ extend_write' = b.extend_write
    /\ data' = b.data
    /\ tvec' = b.tvec
    /\ write_idx' = b.write_idx
    /\ markers' = b.markers
    /\ marker_ts' = b.marker_ts

MStore(m) ==
    /\ m_data' = m.data
    /\ m_tvec' = m.tvec

-----------------------------------------------------------------------------
(* Operations.                                                             *)

\* TimeSeriesBuffer.reset(n_chans, t0, srate, duration)
Reset ==
    /\ obj = "TimeSeriesBuffer" /\ Idle
    /\ \E <<t0, sr, dur>> \in ResetArgs :
         LET n_chans == VisCount(VisOf(chan_states))
         IN /\ Store(reset(Self, n_chans, t0, sr, dur))
            /\ call' = [name |-> "reset", raised |-> FALSE, n_chans |-> n_chans,
                        t0 |-> t0, srate |-> sr, duration |-> dur]
    /\ newest' = <<>>
    /\ pre' = <<Self>>
    /\ UNCHANGED <<obj, is_numeric, chan_states, merge_vars, coord_vars>>

\* TimeSeriesBuffer.update(data, timestamps, chan_states, ignore_old) with the
\* timestamps of the chunk drawn from stamps
UpdateWith(stamps) ==
    /\ obj = "TimeSeriesBuffer" /\ Idle
    /\ Len(markers) < MaxMarkers
    /\ \E ts \in stamps, ignore_old \in IgnoreOld :
         LET c == Chunk(ts, Len(chan_states), is_numeric)
             vis == VisOf(chan_states)
             raises == update_raises(Self, c, vis, ignore_old)
             kept == IF raises THEN <<>> ELSE Kept(Self, c, vis, ignore_old)
         IN /\ Store(IF raises THEN Self ELSE update(Self, c, vis, ignore_old))
            /\ call' = [name |-> "update", raised |-> raises, chunk |-> c,
                        ignore_old |-> ignore_old, kept |-> kept,
                        newest |-> newest]
            /\ newest' = IF kept = <<>> THEN newest
                         ELSE IF newest = <<>> THEN Some(At(kept, -1))
                         ELSE Some(Max(newest[1], At(kept, -1)))
    /\ pre' = <<Self>>
    /\ UNCHANGED <<obj, is_numeric, chan_states, merge_vars, coord_vars>>

\* update with the chunk of a sampled stream: a few samples, or a burst
Update == UpdateWith(SmallStamps \cup BurstStamps(Period(Self)))

\* update with the chunk of an event (marker) stream: a few events per fetch
UpdateEvents == UpdateWith(SmallStamps)

\* MergeLastOnlyBuffer.reset(n_chans, t0)
MergeReset ==
    /\ obj = "MergeLastOnlyBuffer" /\ Idle
    /\ \E t0 \in {None} \cup {Some(t) : t \in MergeTimes} :
         LET n_chans == VisCount(VisOf(chan_states))
         IN /\ MStore(m_reset(MSelf, n_chans, t0))
            /\ call' = [name |-> "m_reset", raised |-> FALSE, n_chans |-> n_chans,
                        t0 |-> t0]
    /\ pre' = <<MSelf>>
    /\ UNCHANGED <<obj, is_numeric, chan_states, newest, ts_vars, coord_vars>>

\* MergeLastOnlyBuffer.update(data, timestamps, chan_states, source_id) with
\* the renderer's channel table cs of the moment (channels are shown and hidden
\* between fetches); the chunk has one row per channel of the source, or one
\* per visible channel
MergeUpdate ==
    /\ obj = "MergeLastOnlyBuffer" /\ Idle
    /\ \E cs \in MergeChanStates,
          ts \in MergeStamps,
          source_id \in {None, Some("A"), Some("B")},
          all_rows \in BOOLEAN :
         LET mask == m_row_mask(cs, source_id)
             c == Chunk(ts, IF all_rows THEN Len(mask) ELSE VisCount(mask), TRUE)
             raises == m_update_raises(MSelf, c, cs, source_id)
         IN /\ MStore(IF raises THEN m_update_head(MSelf, c, cs)
                      ELSE m_update(MSelf, c, cs, source_id))
            /\ chan_states' = cs
            /\ call' = [name |-> "m_update", raised |-> raises, chunk |-> c,
                        source_id |-> source_id]
    /\ pre' = <<MSelf>>
    /\ UNCHANGED <<obj, is_numeric, newest, ts_vars, coord_vars>>

\* the caller takes the result; the record of the call is dropped
Return ==
    /\ ~Idle
    /\ call' = NoCall
    /\ pre' = <<>>
    /\ UNCHANGED <<obj, is_numeric, chan_states, newest, ts_vars, merge_vars,
                   coord_vars>>

Next == Reset \/ Update \/ MergeReset \/ MergeUpdate \/ Return

Spec == Init /\ [][Next]_vars

InitText ==
    /\ obj = "TimeSeriesBuffer"
    /\ mode \in Modes
    /\ srate = 0
    /\ duration \in Durations
    \* as the renderer constructs it: indicate_write_index=True, used in Sweep only
    /\ extend_write = (mode = "Sweep")
    /\ chan_states \in TSChanStates
    /\ is_numeric = FALSE
    /\ data = << <<>> >>
    /\ tvec = <<>>
    /\ write_idx = 0
    /\ markers = <<>>
    /\ marker_ts = <<>>
    /\ m_data = << <<>> >>
    /\ m_tvec = <<>>
    /\ newest = <<>>
    /\ call = NoCall
    /\ pre = <<>>
    /\ NoRenderer

NextText == Reset \/ UpdateEvents \/ Return

SpecText == InitText /\ [][NextText]_vars

-----------------------------------------------------------------------------
(* update() called with data that need not match the timestamps or the     *)
(* channel table. The source makes no check of its own: what fails is the  *)
(* indexing of data by the visibility mask (line 184) and by the sort      *)
(* order of the timestamps (line 188). The channel table is the one the    *)
(* buffer was reset with.                                                  *)

\* a chunk of n_rows rows and n_cols columns with the timestamps ts
ChunkOfShape(ts, n_rows, n_cols, numeric) ==
    [timestamps |-> ts,
     data |-> [r \in 1..n_rows |->
                 [j \in 1..n_cols |-> IF j <= Len(ts) THEN Signal(ts[j], r)
                                       ELSE Num(1)]],
     numeric |-> numeric]

\* data[:, re_ix] keeps the columns the timestamps index: the first Len(ts)
IndexedColumns(c) ==
    [c EXCEPT !.data = [r \in 1..Len(c.data) |->
                          SubSeq(c.data[r], 1, Len(c.timestamps))]]

\* whether update raises on the chunk c of any shape
update_any_raises(b, c, vis, ignore_old) ==
    /\ Len(c.timestamps) > 0
    /\ \/ Len(c.data) # Len(vis)                   \* data[chan_states['vis']]
       \/ NCols(c.data) < Len(c.timestamps)        \* data[:, re_ix]
       \/ update_raises(b, IndexedColumns(c), vis, ignore_old)

\* the buffer after update on the chunk c of any shape
update_any(b, c, vis, ignore_old) ==
    IF Len(c.timestamps) = 0 \/ update_any_raises(b, c, vis, ignore_old) THEN b
    ELSE update(b, IndexedColumns(c), vis, ignore_old)

InitMalformed == Init /\ obj = "TimeSeriesBuffer"

\* one timestamp, or two at most a sample period apart, in either order
FewStamps ==
    {<<t>> : t \in Times}
    \cup {x \in Times \X Times : x[2] - x[1] \in {-1, 1, 2}}

\* rows and columns of the data beyond what the timestamps and the channel
\* table call for: the matching shape, or one dimension off by one
ShapeOffsets == {<<0, 0>>, <<-1, 0>>, <<1, 0>>, <<0, -1>>, <<0, 1>>}

\* TimeSeriesBuffer.update(data, timestamps, chan_states) with one or two
\* timestamps and data of one row or column fewer or more than they call for,
\* or of the matching shape
UpdateAnyShape ==
    /\ obj = "TimeSeriesBuffer" /\ Idle
    /\ \E ts \in FewStamps, off \in ShapeOffsets, ignore_old \in IgnoreOld :
         /\ LET c == ChunkOfShape(ts, Len(chan_states) + off[1],
                                  Len(ts) + off[2], is_numeric)
                vis == VisOf(chan_states)
                raises == update_any_raises(Self, c, vis, ignore_old)
                kept == IF raises \/ Len(ts) = 0 THEN <<>>
                        ELSE Kept(Self, IndexedColumns(c), vis, ignore_old)
            IN /\ Store(update_any(Self, c, vis, ignore_old))
               /\ call' = [name |-> "update", raised |-> raises, chunk |-> c,
                           ignore_old |-> ignore_old, kept |-> kept,
                           newest |-> newest]
               /\ newest' = IF kept = <<>> THEN newest
                            ELSE IF newest = <<>> THEN Some(At(kept, -1))
                            ELSE Some(Max(newest[1], At(kept, -1)))
    /\ pre' = <<Self>>
    /\ UNCHANGED <<obj, is_numeric, chan_states, merge_vars, coord_vars>>

NextMalformed == Reset \/ UpdateAnyShape \/ Return

SpecMalformed == InitMalformed /\ [][NextMalformed]_vars

-----------------------------------------------------------------------------
(* The renderer that owns the buffers: RendererFormatData and              *)
(* RendererBufferData (renderers/data/base.py) with the render timer of    *)
(* the display mix-in (renderers/display). A buffer of the renderer is     *)
(* represented by the TimeSeriesBuffer as reset_buffers left it and by the *)
(* number of update calls it has received since.                           *)

\* src.data_stats['chan_states'] of a source with an inlet: a descriptor per
\* channel, visible. Source A has one channel, source B two; a channel name is
\* unique within its stream only.
data_stats(id) ==
    IF id = "A" THEN <<[name |-> "Cz", vis |-> TRUE]>>
    ELSE <<[name |-> "Cz", vis |-> TRUE], [name |-> "Pz", vis |-> TRUE]>>

\* the descriptors of source s, each tagged ch_state['src'] = src_key
source_chan_states(s) ==
    [j \in 1..Len(data_stats(s)) |->
        [name |-> data_stats(s)[j].name, vis |-> data_stats(s)[j].vis, src |-> s]]

RSelf == [frozen |-> frozen, flush_on_unfreeze |-> flush_on_unfreeze,
          data_sources |-> data_sources, chan_states |-> chan_states,
          buffers |-> buffers, timer_active |-> timer_active,
          monitor_mode |-> monitor_mode, auto_timer |-> auto_timer,
          plot_mode |-> plot_mode, duration |-> r_duration,
          connected |-> connected]

SourceSet(r) == {r.data_sources[i] : i \in 1..Len(r.data_sources)}

\* stop_timer() of the display mix-in
stop_timer(r) == [r EXCEPT !.timer_active = FALSE]

\* restart_timer() of the display mix-in: stop if active, then start
restart_timer(r) == [r EXCEPT !.timer_active = TRUE]

\* TimeSeriesBuffer.__init__(mode, srate, duration, indicate_write_index)
NewTimeSeriesBuffer(m, sr, dur, indicate_write_index) ==
    [mode |-> m, srate |-> sr, duration |-> dur,
     extend_write |-> indicate_write_index, data |-> << <<>> >>, tvec |-> <<>>,
     write_idx |-> 0, markers |-> <<>>, marker_ts |-> <<>>]

\* reset_buffers giving every buffer a row for each channel of the table
reset_buffers_all_chans(r) ==
    [r EXCEPT !.buffers =
        [i \in 1..Len(r.data_sources) |->
            [buffer |-> reset(NewTimeSeriesBuffer(r.plot_mode,
                                  SourceRate(r.data_sources[i]), r.duration, TRUE),
                              Len(r.chan_states), None, 0, 0),
             updates |-> 0]]]

\* RendererBufferData.reset_buffers(): a new buffer per source, reset to the
\* number of visible channels of that source
reset_buffers(r) ==
    [r EXCEPT !.buffers =
        [i \in 1..Len(r.data_sources) |->
            LET n_chans == Cardinality({j \in 1..Len(r.chan_states) :
                               /\ r.chan_states[j].src = r.data_sources[i]
                               /\ r.chan_states[j].vis})
            IN [buffer |-> reset(NewTimeSeriesBuffer(r.plot_mode,
                                     SourceRate(r.data_sources[i]), r.duration,
                                     TRUE),
                                 n_chans, None, 0, 0),
                updates |-> 0]]]

\* reset restarting the timer whether or not the renderer is frozen
r_reset_unguarded(r) ==
    LET r1 == reset_buffers(r)
    IN IF Len(r1.chan_states) > 0 THEN restart_timer(r1) ELSE r1

\* RendererFormatData.reset()
r_reset(r) ==
    LET r1 == reset_buffers(r)
    IN IF Len(r1.chan_states) > 0
       THEN IF ~r1.frozen THEN restart_timer(r1) ELSE r1
       ELSE r1

\* the chan_states setter
set_chan_states(r, value) == r_reset([r EXCEPT !.chan_states = value])

\* the descriptors gathered from the last registered source to the first
RECURSIVE SourceRows_reversed(_)
SourceRows_reversed(ids) ==
    IF ids = <<>> THEN <<>>
    ELSE SourceRows_reversed(Tail(ids)) \o source_chan_states(Head(ids))

\* new_chan_states of handle_source_changed: the descriptors of the sources ids
RECURSIVE SourceRows(_)
SourceRows(ids) ==
    IF ids = <<>> THEN <<>>
    ELSE source_chan_states(Head(ids)) \o SourceRows(Tail(ids))

\* the visibility a channel of the table cs has, TRUE if cs has no such row
VisIn(cs, row) ==
    \A j \in 1..Len(cs) :
        (cs[j].src = row.src /\ cs[j].name = row.name) => cs[j].vis

\* mutant of handle_source_changed: the rebuilt rows keep the visibility the
\* channel had in the table before
handle_source_changed_keeping(r) ==
    set_chan_states(r,
        LET rows == SourceRows(r.data_sources)
        IN [j \in 1..Len(rows) |->
               [rows[j] EXCEPT !.vis = VisIn(r.chan_states, rows[j])]])

\* RendererFormatData.handle_source_changed(data_source)
handle_source_changed(r) == set_chan_states(r, SourceRows(r.data_sources))

\* RendererFormatData.add_source(data_source): state_changed.connect(...)
add_source(r, s) ==
    handle_source_changed([r EXCEPT !.data_sources = Append(@, s),
                                    !.connected = @ \cup {s}])

\* the labels of a Series of n rows: its index, 0 .. n - 1
RowLabels(n) == {<<"0", "1", "2", "3">>[i] : i \in 1..n}

\* "key in series" tests the labels of the Series, not its values
SeriesContains(column, key) == key \in RowLabels(Len(column))

\* RendererFormatData.remove_source(data_source): state_changed is
\* disconnected "if src_id in self.chan_states['src']"
remove_source(r, s) ==
    LET r1 == [r EXCEPT !.data_sources = SelectSeq(@, LAMBDA x : x # s)]
        src_column == [j \in 1..Len(r1.chan_states) |-> r1.chan_states[j].src]
        r2 == IF SeriesContains(src_column, s)
              THEN [r1 EXCEPT !.connected = @ \ {s}]
              ELSE r1
    IN handle_source_changed(r2)

\* RendererFormatData.chantree_itemChanged(item, column): the item's text is
\* changed_ch_label, its check state is_checked
chantree_itemChanged(r, changed_ch_label, is_checked) ==
    set_chan_states(r,
        [j \in 1..Len(r.chan_states) |->
            IF r.chan_states[j].name = changed_ch_label
            THEN [r.chan_states[j] EXCEPT !.vis = is_checked]
            ELSE r.chan_states[j]])

\* the duration setter of RendererBufferData
set_duration(r, value) == r_reset([r EXCEPT !.duration = value])

\* a plot_mode setter that keeps the buffers
set_plot_mode_keeping(r, value) == [r EXCEPT !.plot_mode = value]

\* the plot_mode setter of RendererBufferData
set_plot_mode(r, value) == r_reset([r EXCEPT !.plot_mode = value])

\* RendererFormatData.freeze()
freeze(r) ==
    LET r1 == stop_timer(r)
        r2 == IF r1.flush_on_unfreeze
              THEN [r1 EXCEPT !.monitor_mode = @ \cup SourceSet(r1),
                              !.auto_timer = @ \cup SourceSet(r1)]
              ELSE r1
    IN [r2 EXCEPT !.frozen = TRUE]

\* RendererFormatData.unfreeze()
unfreeze(r) ==
    LET r1 == [r EXCEPT !.frozen = FALSE]
        r2 == IF r1.flush_on_unfreeze
              THEN [r1 EXCEPT !.monitor_mode = @ \ SourceSet(r1),
                              !.auto_timer = @ \ SourceSet(r1)]
              ELSE r1
    IN r_reset(r2)

\* RendererBufferData.fetch_data(): the sources in delivered return samples,
\* the others return none and are skipped
fetch_data(r, delivered) ==
    [r EXCEPT !.buffers =
        [i \in 1..Len(r.buffers) |->
            IF r.data_sources[i] \in delivered
            THEN [r.buffers[i] EXCEPT !.updates = @ + 1]
            ELSE r.buffers[i]]]

\* RendererBaseDisplay.on_timer(): fetch, update the buffers, draw
on_timer(r, delivered) == fetch_data(r, delivered)

RStore(r) ==
    /\ frozen' = r.frozen
    /\ flush_on_unfreeze' = r.flush_on_unfreeze
    /\ data_sources' = r.data_sources
    /\ chan_states' = r.chan_states
    /\ buffers' = r.buffers
    /\ timer_active' = r.timer_active
    /\ monitor_mode' = r.monitor_mode
    /\ auto_timer' = r.auto_timer
    /\ plot_mode' = r.plot_mode
    /\ r_duration' = r.duration
    /\ connected' = r.connected

\* what a renderer's handler leaves alone; call names the handler that has
\* just returned
RFrameCall(c) ==
    /\ call' = c
    /\ UNCHANGED <<obj, is_numeric, newest, pre, ts_vars, merge_vars>>

RFrame(name) == RFrameCall([name |-> name])

\* the renderer after construction, frozen or not, with no source yet; the
\* timer object exists and has not been started
InitRenderer ==
    /\ obj = "Renderer"
    /\ frozen \in BOOLEAN
    /\ flush_on_unfreeze \in BOOLEAN
    /\ data_sources = <<>>
    /\ buffers = <<>>
    /\ timer_active = FALSE
    /\ monitor_mode = {}
    /\ auto_timer = {}
    /\ plot_mode \in Modes
    /\ r_duration \in Durations
    /\ connected = {}
    /\ srcs = [id \in Sources |-> NewSource(id)]
    /\ chan_states = <<>>
    /\ is_numeric = TRUE
    /\ mode = "Scroll"
    /\ srate = 0
    /\ duration = 0
    /\ extend_write = FALSE
    /\ data = << <<>> >>
    /\ tvec = <<>>
    /\ write_idx = 0
    /\ markers = <<>>
    /\ marker_ts = <<>>
    /\ m_data = << <<>> >>
    /\ m_tvec = <<>>
    /\ newest = <<>>
    /\ call = NoCall
    /\ pre = <<>>

AddSource ==
    /\ obj = "Renderer"
    /\ \E s \in Sources \ SourceSet(RSelf) :
         /\ RStore(add_source(RSelf, s))
         /\ RFrameCall([name |-> "add_source", src |-> s, before |-> data_sources,
                        hidden |-> \E i \in 1..Len(chan_states) : ~chan_states[i].vis])
    /\ UNCHANGED srcs

RemoveSource ==
    /\ obj = "Renderer"
    /\ \E s \in Sources :
         /\ RStore(remove_source(RSelf, s))
         /\ RFrameCall([name |-> "remove_source", src |-> s,
                        before |-> data_sources,
                        hidden |-> \E i \in 1..Len(chan_states) : ~chan_states[i].vis])
    /\ UNCHANGED srcs

\* a source whose state_changed signal is connected emits it
HandleSourceChanged ==
    /\ obj = "Renderer"
    /\ \E s \in connected :
         /\ RStore(handle_source_changed(RSelf))
         /\ RFrameCall([name |-> "handle_source_changed", src |-> s,
                        before |-> data_sources,
                        hidden |-> \E i \in 1..Len(chan_states) : ~chan_states[i].vis])
    /\ UNCHANGED srcs

\* a channel is shown or hidden in the channel tree, which has one item per
\* row of the channel table
ChantreeItemChanged ==
    /\ obj = "Renderer"
    /\ \E i \in 1..Len(chan_states), is_checked \in BOOLEAN :
         /\ RStore(chantree_itemChanged(RSelf, chan_states[i].name, is_checked))
         /\ RFrameCall([name |-> "chantree_itemChanged", item |-> i,
                        is_checked |-> is_checked, before |-> chan_states])
    /\ UNCHANGED srcs

SetDuration ==
    /\ obj = "Renderer"
    /\ \E value \in Durations : RStore(set_duration(RSelf, value))
    /\ RFrameCall([name |-> "duration", was |-> r_duration])
    /\ UNCHANGED srcs

SetPlotMode ==
    /\ obj = "Renderer"
    /\ \E value \in Modes : RStore(set_plot_mode(RSelf, value))
    /\ RFrameCall([name |-> "plot_mode", was |-> plot_mode,
                   updated |-> \A i \in 1..Len(buffers) : buffers[i].updates > 0])
    /\ UNCHANGED srcs

Freeze ==
    /\ obj = "Renderer"
    /\ RStore(freeze(RSelf))
    /\ RFrame("freeze")
    /\ UNCHANGED srcs

\* unfreeze(): the sources take their update_requested() after their
\* monitor_mode has been cleared
Unfreeze ==
    /\ obj = "Renderer"
    /\ RStore(unfreeze(RSelf))
    /\ srcs' = [id \in Sources |->
                   IF flush_on_unfreeze /\ id \in SourceSet(RSelf)
                   THEN src_update_requested(srcs[id], FALSE, TRUE).src
                   ELSE srcs[id]]
    /\ RFrameCall([name |-> "unfreeze", was_frozen |-> frozen])

\* the render timer fires: it does so only while it is running; every
\* registered source is asked for its data
OnTimer ==
    /\ obj = "Renderer"
    /\ timer_active
    /\ \A i \in 1..Len(buffers) : buffers[i].updates < MaxCycles
    /\ LET delivered == {id \in SourceSet(RSelf) :
                            src_fetch_data(srcs[id]).data # <<>>}
       IN RStore(on_timer(RSelf, delivered))
    /\ srcs' = [id \in Sources |->
                   IF id \in SourceSet(RSelf) THEN src_fetch_data(srcs[id]).src
                   ELSE srcs[id]]
    /\ RFrame("on_timer")

\* a sample with a value from vals reaches the inlet of a registered source
ArriveWith(vals) ==
    /\ obj = "Renderer"
    /\ \E id \in SourceSet(RSelf), v \in vals :
         /\ srcs[id].inlet
         /\ Len(srcs[id].queue) < MaxPending
         /\ srcs' = [srcs EXCEPT ![id].queue = Append(@, v)]
    /\ RFrame("arrive")
    /\ UNCHANGED <<chan_states, coord_state>>

Arrive == ArriveWith({1})

\* the data timer of a source fires: update_requested(); nothing is connected
\* to its data_updated signal. The rate is emitted at every request.
SourceTimer ==
    /\ obj = "Renderer"
    /\ \E id \in auto_timer :
         srcs' = [srcs EXCEPT
                    ![id] = src_update_requested(@, id \in monitor_mode, TRUE).src]
    /\ RFrame("update_requested")
    /\ UNCHANGED <<chan_states, coord_state>>

NextRenderer ==
    AddSource \/ RemoveSource \/ HandleSourceChanged \/ ChantreeItemChanged
    \/ SetDuration \/ SetPlotMode \/ Freeze \/ Unfreeze \/ OnTimer
    \/ Arrive \/ SourceTimer

SpecRenderer == InitRenderer /\ [][NextRenderer]_vars

-----------------------------------------------------------------------------
(* The data sources on their own: every LSLDataSource is built on a        *)
(* StreamInfo (its inlet exists) or on a dict (its stream is resolved      *)
(* later), in monitor mode or not, and is then asked for data by whoever   *)
(* holds it.                                                               *)

InitSource ==
    /\ obj = "LSLDataSource"
    /\ srcs \in [Sources -> {UnresolvedSource}]
               \cup {[id \in Sources |-> NewSource(id)]}
    /\ monitor_mode \in SUBSET Sources
    /\ auto_timer = {}
    /\ frozen = FALSE
    /\ flush_on_unfreeze = TRUE
    /\ data_sources = <<>>
    /\ buffers = <<>>
    /\ timer_active = FALSE
    /\ plot_mode = "Scroll"
    /\ r_duration = 0
    /\ connected = {}
    /\ chan_states = <<>>
    /\ is_numeric = TRUE
    /\ mode = "Scroll"
    /\ srate = 0
    /\ duration = 0
    /\ extend_write = FALSE
    /\ data = << <<>> >>
    /\ tvec = <<>>
    /\ write_idx = 0
    /\ markers = <<>>
    /\ marker_ts = <<>>
    /\ m_data = << <<>> >>
    /\ m_tvec = <<>>
    /\ newest = <<>>
    /\ call = NoCall
    /\ pre = <<>>

\* what a source's operation leaves alone
SFrame ==
    UNCHANGED <<obj, is_numeric, chan_states, newest, ts_vars, merge_vars,
                frozen, flush_on_unfreeze, data_sources, buffers, timer_active,
                auto_timer, plot_mode, r_duration, connected>>

\* LSLDataSource._refresh_resolver() when the resolver has found the stream
SrcRefreshResolver ==
    /\ obj = "LSLDataSource" /\ Idle
    /\ \E id \in Sources :
         /\ ~srcs[id].inlet
         /\ srcs' = [srcs EXCEPT ![id] = create_inlet(@, id)]
         /\ call' = [name |-> "refresh_resolver", src |-> id]
         /\ pre' = <<srcs[id]>>
    /\ UNCHANGED monitor_mode
    /\ SFrame

\* a sample reaches the inlet of a source
SrcArrive ==
    /\ obj = "LSLDataSource" /\ Idle
    /\ \E id \in Sources, v \in 1..MaxVal :
         /\ srcs[id].inlet
         /\ Len(srcs[id].queue) < MaxPending
         /\ srcs' = [srcs EXCEPT ![id].queue = Append(@, v)]
    /\ UNCHANGED <<monitor_mode, call, pre>>
    /\ SFrame

\* src.monitor_mode = value, as freeze() and unfreeze() set it
SrcSetMonitorMode ==
    /\ obj = "LSLDataSource" /\ Idle
    /\ \E id \in Sources, value \in BOOLEAN :
         monitor_mode' = IF value THEN monitor_mode \cup {id}
                         ELSE monitor_mode \ {id}
    /\ UNCHANGED <<srcs, call, pre>>
    /\ SFrame

\* LSLDataSource.fetch_data()
SrcFetchData ==
    /\ obj = "LSLDataSource" /\ Idle
    /\ \E id \in Sources :
         LET f == src_fetch_data(srcs[id])
         IN /\ srcs' = [srcs EXCEPT ![id] = f.src]
            /\ call' = [name |-> "fetch_data", src |-> id, data |-> f.data]
            /\ pre' = <<srcs[id]>>
    /\ UNCHANGED monitor_mode
    /\ SFrame

\* LSLDataSource.update_requested(); the rate is emitted before the count of
\* samples passes MaxSinceEmit
SrcUpdateRequested ==
    /\ obj = "LSLDataSource" /\ Idle
    /\ \E id \in Sources, elapsed \in BOOLEAN :
         LET u == src_update_requested(srcs[id], id \in monitor_mode, elapsed)
         IN /\ u.src.samples_since_emit <= MaxSinceEmit
            /\ srcs' = [srcs EXCEPT ![id] = u.src]
            /\ call' = [name |-> "update_requested", src |-> id,
                        monitor |-> id \in monitor_mode,
                        emitted |-> u.emitted, rate_emitted |-> u.rate_emitted]
            /\ pre' = <<srcs[id]>>
    /\ UNCHANGED monitor_mode
    /\ SFrame

NextSource ==
    SrcRefreshResolver \/ SrcArrive \/ SrcSetMonitorMode \/ SrcFetchData
    \/ SrcUpdateRequested \/ Return

SpecSource == InitSource /\ [][NextSource]_vars

-----------------------------------------------------------------------------
(* RendererMergeDataSources (renderers/data/base.py): a renderer with one  *)
(* TimeSeriesBuffer per source, as above, and one MergeLastOnlyBuffer      *)
(* (m_data, m_tvec) that its fetch_data fills from the contents of those   *)
(* buffers. Auto-scaling is off (auto_scale = "none", the default).        *)

\* RendererMergeDataSources.reset_buffers(), the part after
\* super().reset_buffers(): a new MergeLastOnlyBuffer reset to the visible
\* channels of the table cs
merge_reset_buffers(cs) ==
    m_reset([data |-> << <<>> >>, tvec |-> <<>>], VisCount(VisOf(cs)), None)

\* the rows of the channel table of source s: self._sep_chan_states[src_ix]
sep_chan_states(r, s) == SelectSeq(r.chan_states, LAMBDA row : row.src = s)

\* RendererBufferData.fetch_data(): the source s delivers samples with the
\* timestamps stamps[s] on each of its channels, none if stamps[s] is empty;
\* the buffer of a source that delivers is updated
buffers_fetch_data(r, stamps) ==
    [r EXCEPT !.buffers =
        [i \in 1..Len(r.buffers) |->
            LET s == r.data_sources[i]
                cs == sep_chan_states(r, s)
            IN IF stamps[s] = <<>> THEN r.buffers[i]
               ELSE [buffer |-> update(r.buffers[i].buffer,
                                       Chunk(stamps[s], Len(cs), TRUE),
                                       VisOf(cs), TRUE),
                     updates |-> r.buffers[i].updates + 1]]]

\* collect_data[src_ix][0] and collect_timestamps[src_ix][0]: the contents of
\* the buffer of a source that delivered, empty arrays otherwise
collected(r, stamps, i) ==
    IF stamps[r.data_sources[i]] = <<>>
    THEN [timestamps |-> <<>>, data |-> << <<>> >>, numeric |-> TRUE]
    ELSE [timestamps |-> r.buffers[i].buffer.tvec,
          data |-> r.buffers[i].buffer.data, numeric |-> TRUE]

\* the loop of RendererMergeDataSources.fetch_data from source i on: the
\* merge buffer m is updated with what was collected for each source, until
\* an update raises
RECURSIVE merge_collected(_, _, _, _)
merge_collected(r, stamps, m, i) ==
    IF i > Len(r.data_sources) THEN [m |-> m, raised |-> FALSE]
    ELSE LET c == collected(r, stamps, i)
             source_id == Some(r.data_sources[i])
         IN IF m_update_raises(m, c, r.chan_states, source_id)
            THEN [m |-> m_update_head(m, c, r.chan_states), raised |-> TRUE]
            ELSE merge_collected(r, stamps,
                                 m_update(m, c, r.chan_states, source_id), i + 1)

MergeRendererStore(r) ==
    /\ RStore(r)
    /\ MStore(merge_reset_buffers(r.chan_states))

MergeRendererFrame(c) ==
    /\ call' = c
    /\ UNCHANGED <<obj, is_numeric, newest, pre, ts_vars, srcs>>

InitMergeRenderer ==
    /\ obj = "RendererMergeDataSources"
    /\ frozen = FALSE
    /\ flush_on_unfreeze = TRUE
    /\ data_sources = <<>>
    /\ buffers = <<>>
    /\ timer_active = FALSE
    /\ monitor_mode = {}
    /\ auto_timer = {}
    /\ plot_mode \in Modes
    /\ r_duration \in Durations
    /\ connected = {}
    /\ srcs = [id \in Sources |-> NewSource(id)]
    /\ chan_states = <<>>
    /\ is_numeric = TRUE
    /\ mode = "Scroll"
    /\ srate = 0
    /\ duration = 0
    /\ extend_write = FALSE
    /\ data = << <<>> >>
    /\ tvec = <<>>
    /\ write_idx = 0
    /\ markers = <<>>
    /\ marker_ts = <<>>
    /\ m_data = << <<>> >>
    /\ m_tvec = <<>>
    /\ newest = <<>>
    /\ call = NoCall
    /\ pre = <<>>

MergeAddSource ==
    /\ obj = "RendererMergeDataSources"
    /\ \E s \in Sources \ SourceSet(RSelf) :
         /\ MergeRendererStore(add_source(RSelf, s))
         /\ MergeRendererFrame([name |-> "add_source", src |-> s])

MergeChantreeItemChanged ==
    /\ obj = "RendererMergeDataSources"
    /\ \E i \in 1..Len(chan_states), is_checked \in BOOLEAN :
         /\ MergeRendererStore(
                chantree_itemChanged(RSelf, chan_states[i].name, is_checked))
         /\ MergeRendererFrame([name |-> "chantree_itemChanged", item |-> i,
                                is_checked |-> is_checked])

\* the timestamps a source delivers in one fetch: none, or one sample
FetchStamps == {<<>>} \cup {<<t>> : t \in MergeTimes}

\* RendererMergeDataSources.fetch_data(), called by the render timer. A source
\* all of whose channels are hidden delivers nothing here: an array of no
\* rows is a sequence of no rows, which does not keep its number of columns.
MergeFetchData ==
    /\ obj = "RendererMergeDataSources"
    /\ timer_active
    /\ \A i \in 1..Len(buffers) : buffers[i].updates < MaxCycles
    /\ \E stamps \in [Sources -> FetchStamps] :
         /\ \A s \in Sources \ SourceSet(RSelf) : stamps[s] = <<>>
         /\ \A s \in SourceSet(RSelf) :
               (\A row \in Range(sep_chan_states(RSelf, s)) : ~row.vis)
                  => stamps[s] = <<>>
         /\ LET r1 == buffers_fetch_data(RSelf, stamps)
                merged == merge_collected(r1, stamps, MSelf, 1)
            IN /\ RStore(r1)
               /\ MStore(merged.m)
               /\ MergeRendererFrame([name |-> "fetch_data",
                                      raised |-> merged.raised,
                                      delivered |-> {s \in Sources : stamps[s] # <<>>}])

NextMergeRenderer == MergeAddSource \/ MergeChantreeItemChanged \/ MergeFetchData

SpecMergeRenderer == InitMergeRenderer /\ [][NextMergeRenderer]_vars

-----------------------------------------------------------------------------
(* Properties. A state with call.name = "update" (or "reset", ...) is the  *)
(* state in which that call has just returned; pre[1] is the object as the *)
(* call found it.                                                          *)

IsTS == obj = "TimeSeriesBuffer"

Pre == pre[1]

UpdateReturned == IsTS /\ call.name = "update" /\ ~call.raised

\* the rows of the chunk that update keeps (the visible channels)
VisRows == {r \in 1..Len(chan_states) : chan_states[r].vis}

\* the r-th visible channel
VisRow(r) == CHOOSE q \in VisRows : Cardinality({x \in VisRows : x <= q}) = r

NonDecreasing(a) == \A i \in 1..(Len(a) - 1) : a[i] <= a[i + 1]

Distinct(a) == \A i, j \in 1..Len(a) : i # j => a[i] # a[j]

\* C1: in Sweep mode, right after reset(t0=T) with rate > 0, the write cursor
\* satisfies time_vector[write_index] <= T < time_vector[write_index] + 1/rate.
C1_SweepPhaseAfterReset ==
    (IsTS /\ call.name = "reset" /\ call.t0 # None /\ mode = "Sweep" /\ srate > 0)
    => /\ At(tvec, write_idx) <= call.t0[1]
       /\ call.t0[1] < At(tvec, write_idx) + Period(Self)

\* a reset anchored off the start of a sweep and off the sample grid
C1_Witness ==
    /\ IsTS /\ call.name = "reset" /\ call.t0 # None /\ mode = "Sweep" /\ srate > 0
    /\ write_idx > 0
    /\ call.t0[1] > At(tvec, write_idx)

\* C5: in Scroll mode time_vector is non-decreasing in every state, and once
\* anchored its length is capacity_samples and an update does not change it.
C5_ScrollMonotone ==
    (IsTS /\ mode = "Scroll")
    => /\ NonDecreasing(tvec)
       /\ Len(tvec) > 0 => Len(tvec) = Capacity(srate, duration)
       /\ (call.name = "update" /\ Len(Pre.tvec) > 0) => Len(tvec) = Len(Pre.tvec)

\* a Scroll update that overflowed an anchored buffer and one of an irregular
\* stream are covered: here the overflow
C5_Witness ==
    /\ UpdateReturned /\ mode = "Scroll"
    /\ Len(Pre.tvec) > 0
    /\ Len(call.kept) > Len(tvec)
    /\ At(tvec, -1) = At(call.kept, -1)

\* the chunk with its (sample, timestamp) columns in ascending order of
\* timestamp, for pairwise distinct timestamps
AscendingChunk(c) ==
    LET order == SortedSeq(Range(c.timestamps))
        col(j) == CHOOSE q \in 1..Len(c.timestamps) : c.timestamps[q] = order[j]
    IN [timestamps |-> order,
        data |-> [r \in 1..Len(c.data) |-> [j \in 1..Len(order) |-> c.data[r][col(j)]]],
        numeric |-> c.numeric]

\* C6: an update with a chunk of pairwise distinct timestamps, delivered in any
\* order, leaves the buffer in the state that the update with the same chunk
\* in ascending order of timestamp leaves it in.
C6_OutOfOrder ==
    (UpdateReturned /\ Distinct(call.chunk.timestamps))
    => Self = update(Pre, AscendingChunk(call.chunk), VisOf(chan_states),
                     call.ignore_old)

\* a chunk delivered newest first, both samples committed
C6_Witness ==
    /\ UpdateReturned
    /\ Len(call.chunk.timestamps) = 2
    /\ call.chunk.timestamps[1] > call.chunk.timestamps[2]
    /\ Len(call.kept) = 2
    /\ Len(Pre.tvec) > 0

\* C9: a Scroll update of a regular-rate stream that commits k in-order
\* samples, 1 <= k <= capacity, holds them and their timestamps in the
\* trailing k slots and the previous slots k.. in the leading slots.
C9_ScrollWrite ==
    (/\ UpdateReturned /\ mode = "Scroll" /\ srate > 0
     /\ Len(Pre.tvec) > 0
     /\ NonDecreasing(call.chunk.timestamps)
     /\ Len(call.kept) >= 1 /\ Len(call.kept) <= NCols(Pre.data))
    => LET n == NCols(Pre.data)
           k == Len(call.kept)
       IN /\ Len(tvec) = n
          /\ \A i \in 1..n :
               IF i <= n - k
               THEN /\ tvec[i] = Pre.tvec[i + k]
                    /\ \A r \in 1..Len(data) : data[r][i] = Pre.data[r][i + k]
               ELSE /\ tvec[i] = call.kept[i - (n - k)]
                    /\ \A r \in 1..Len(data) :
                         data[r][i] = Signal(call.kept[i - (n - k)], VisRow(r))

\* two samples committed to a three-slot buffer that held a sample before
C9_Witness ==
    /\ UpdateReturned /\ mode = "Scroll" /\ srate > 0
    /\ Len(Pre.tvec) = 3
    /\ ~IsNaN(Pre.data[1][3])
    /\ NonDecreasing(call.chunk.timestamps)
    /\ Len(call.kept) = 2
    /\ call.kept[1] < call.kept[2]

\* C10: an update with an empty timestamps array returns without raising and
\* leaves the buffer unchanged, for both buffer classes.
C10_EmptyUpdateNoOp ==
    /\ (IsTS /\ call.name = "update" /\ Len(call.chunk.timestamps) = 0)
       => (~call.raised /\ Self = Pre)
    /\ (call.name = "m_update" /\ Len(call.chunk.timestamps) = 0)
       => (~call.raised /\ MSelf = Pre)

\* an empty update of an anchored Sweep buffer that holds data
C10_Witness ==
    /\ IsTS /\ call.name = "update" /\ Len(call.chunk.timestamps) = 0
    /\ mode = "Sweep"
    /\ Len(tvec) > 0
    /\ \E i \in 1..NCols(data) : ~IsNaN(data[1][i])

\* the samples of an in-order chunk are one nominal period apart
NominalRate(ts, p) == \A j \in 1..(Len(ts) - 1) : ts[j + 1] = ts[j] + p

\* slot i of the buffer holds, on every channel, the sample with timestamp t
Holds(i, t) == \A r \in 1..Len(data) : data[r][i] = Signal(t, VisRow(r))

\* C2: in Sweep mode a committed sample is stored at the index i with
\* time_vector[i] <= timestamp < time_vector[i] + 1/rate, time_vector being the
\* one in force when the sample is written (stated for one-sample chunks).
C2_NearestPriorSlot ==
    (/\ UpdateReturned /\ mode = "Sweep" /\ srate > 0
     /\ Len(call.chunk.timestamps) = 1 /\ Len(call.kept) = 1)
    => LET t == call.kept[1]
           p == Period(Self)
           at_call == Anchor(Pre, call.kept).tvec
           at_write == IF t > At(at_call, -1) + p
                       THEN SweepTvec(t, duration, NCols(data), p)
                       ELSE at_call
       IN \E i \in 1..Len(at_write) :
            /\ at_write[i] <= t
            /\ t < at_write[i] + p
            /\ Holds(i, t)

\* C3: no update of a regular-rate stream commits a sample whose timestamp is
\* less than or equal to the timestamp of a sample committed by an earlier
\* update (ignore_old enabled, either mode).
C3_StaleDiscarded ==
    (UpdateReturned /\ srate > 0 /\ call.ignore_old /\ call.newest # <<>>)
    => LET committed == LastN(call.kept, Min(Len(call.kept), NCols(data)))
       IN \A j \in 1..Len(committed) : committed[j] > call.newest[1]

\* C4: after an update whose in-order, nominal-rate chunk has more samples
\* than capacity_samples the buffer holds each of the last capacity_samples
\* samples of the chunk and no NaN (write-cursor indicator off).
C4_OverflowKeepsLast ==
    (/\ UpdateReturned /\ srate > 0 /\ ~extend_write
     /\ NominalRate(call.chunk.timestamps, Period(Self))
     /\ call.kept = call.chunk.timestamps
     /\ Len(call.kept) > NCols(Pre.data))
    => LET n == NCols(data)
           last == LastN(call.kept, n)
       IN /\ \A r \in 1..Len(data) : \A i \in 1..n : ~IsNaN(data[r][i])
          /\ \A j \in 1..n : \E i \in 1..n : Holds(i, last[j])
          /\ mode = "Scroll" => tvec = last

\* C7: in Scroll mode the update of an irregular numeric stream leaves in the
\* trailing slots one sample per 1/1000 s up to the latest event, each holding
\* the value of the latest event at or before it, or before the first new
\* event the value the buffer committed last.
C7_ZeroOrderHold ==
    (/\ UpdateReturned /\ srate = 0 /\ mode = "Scroll" /\ call.chunk.numeric
     /\ Len(Pre.tvec) > 0 /\ Len(call.kept) > 0
     /\ ~IsNaN(At(Pre.data[1], -1)))
    => LET lwt == At(Pre.tvec, -1)
           p == Period(Self)
           n == NCols(data)
           n_fill == CeilDiv(At(call.kept, -1) - lwt, p)
           m == Min(n_fill, n)
           before(g) == {e \in Range(call.kept) : e <= g}
       IN \A q \in 1..m :
            LET g == lwt + (n_fill - m + q) * p
                i == n - m + q
            IN /\ tvec[i] = g
               /\ \A r \in 1..Len(data) :
                    data[r][i] = IF before(g) # {}
                                 THEN Signal(SetMax(before(g)), VisRow(r))
                                 ELSE At(Pre.data[r], -1)

\* C8: a Sweep update re-anchors the sweep at the duration-aligned bucket of
\* its first wrapped sample and writes the wrapped samples into that sweep,
\* the last of them at the slot that covers its timestamp.
C8_WrappedSlot ==
    (/\ UpdateReturned /\ mode = "Sweep" /\ srate > 0 /\ ~extend_write
     /\ Len(Pre.tvec) > 0
     /\ Len(call.kept) <= NCols(Pre.data)
     /\ \E j \in 1..Len(call.kept) : call.kept[j] > At(Pre.tvec, -1) + Period(Self))
    => LET p == Period(Self)
           wrapped == {t \in Range(call.kept) : t > At(Pre.tvec, -1) + p}
           first == SetMin(wrapped)
           last == SetMax(wrapped)
           anchored == SweepTvec(first, duration, NCols(data), p)
       IN \E i \in 1..Len(anchored) :
            /\ anchored[i] <= last
            /\ last < anchored[i] + p
            /\ Holds(i, last)

\* the sweep in force when the one committed sample t of a regular-rate Sweep
\* update is written: the anchored sweep, or the one re-anchored at t
SweepAtWrite(t) ==
    LET at_call == Anchor(Pre, <<t>>).tvec
    IN IF t > At(at_call, -1) + Period(Self)
       THEN SweepTvec(t, duration, NCols(data), Period(Self))
       ELSE at_call

\* C11: after a non-empty update the last_write_time expression identifies
\* the sample committed last: in Scroll time_vector[-1] is its timestamp, in
\* Sweep time_vector[write_index] - 1/rate is the expected time of the slot it
\* was written to (stated for regular rates, in Sweep for one-sample chunks).
C11_LastWriteTime ==
    (UpdateReturned /\ srate > 0 /\ Len(call.kept) > 0)
    => /\ mode = "Scroll" => At(tvec, -1) = At(call.kept, -1)
       /\ (mode = "Sweep" /\ Len(call.chunk.timestamps) = 1)
          => LET t == call.kept[1]
                 w == SweepAtWrite(t)
                 slot == WriteInds(w, <<t>>)[1]
             IN last_write_time(Self) = At(w, slot)

\* the anchored time vector of a Sweep buffer starts at a multiple of duration
\* and has one slot per period
SweepGrid ==
    /\ tvec[1] % duration = 0
    /\ \A i \in 1..Len(tvec) : tvec[i] = tvec[1] + (i - 1) * Period(Self)

\* C12 (as stated): an anchored Sweep time vector starts at a multiple of
\* duration, has one slot per period and spans exactly one duration:
\* time_vector[last] + 1/rate = time_vector[0] + duration.
C12_SweepSpansDuration ==
    (IsTS /\ mode = "Sweep" /\ Len(tvec) > 0)
    => /\ SweepGrid
       /\ At(tvec, -1) + Period(Self) = tvec[1] + duration

\* C12 (amended): an anchored Sweep time vector starts at a multiple of
\* duration, has one slot per period and capacity_samples slots, so it spans
\* capacity_samples / rate: exactly one duration when rate x duration is a
\* whole number, and otherwise longer than the duration by less than a period.
C12_SweepSpansCapacity ==
    (IsTS /\ mode = "Sweep" /\ Len(tvec) > 0)
    => LET over == (At(tvec, -1) + Period(Self)) - (tvec[1] + duration)
       IN /\ SweepGrid
          /\ Len(tvec) = Capacity(srate, duration)
          /\ over >= 0 /\ over < Period(Self)
          /\ (duration % Period(Self) = 0) <=> (over = 0)

C12_Witness ==
    /\ UpdateReturned /\ mode = "Sweep" /\ duration = 5
    /\ Len(Pre.tvec) > 0 /\ tvec[1] > Pre.tvec[1]
    /\ At(tvec, -1) + Period(Self) > tvec[1] + duration

\* ceil(effective_rate x duration): the least n with n / effective_rate >= duration
CapacitySamples ==
    CHOOSE n \in 0..(duration + 1) :
        /\ n * TicksPerSecond >= EffRate(srate) * duration
        /\ (n - 1) * TicksPerSecond < EffRate(srate) * duration

\* data has capacity_samples columns and time_vector is empty or as long
WidthIsCapacity ==
    /\ NCols(data) = CapacitySamples
    /\ Len(tvec) \in {0, CapacitySamples}

\* C13 (as stated): in every reachable state of a TimeSeriesBuffer data has
\* capacity_samples = ceil(effective_rate x duration) columns and time_vector
\* has length 0 or capacity_samples.
C13_WidthAlways == IsTS => WidthIsCapacity

\* C13 (amended): the same in every state reached once reset has been called;
\* before the first reset the buffer is as constructed, with no columns.
C13_WidthOnceReset ==
    IsTS => \/ data = << <<>> >> /\ tvec = <<>> /\ write_idx = 0
            \/ WidthIsCapacity

C13_Witness ==
    /\ IsTS /\ call.name = "reset"
    /\ NCols(Pre.data) > 0 /\ Len(Pre.tvec) > 0
    /\ call.duration # 0 /\ NCols(data) # NCols(Pre.data)

\* C14: reset(n_channels, t0, rate, duration) leaves data with n_channels
\* rows of ceil(effective_rate x duration) NaN entries, the rate and duration
\* given (or kept when omitted); without t0 the time vector is empty, and in
\* Scroll mode with t0 it is time_vector[i] = t0 - (capacity - 1 - i)/rate.
C14_Reset ==
    (IsTS /\ call.name = "reset")
    => LET n == CapacitySamples
           p == TicksPerSecond \div (IF srate = 0 THEN 1000 ELSE srate)
       IN /\ srate = (IF call.srate = 0 THEN Pre.srate ELSE call.srate)
          /\ duration = (IF call.duration = 0 THEN Pre.duration ELSE call.duration)
          /\ Len(data) = call.n_chans
          /\ \A r \in 1..Len(data) :
                /\ Len(data[r]) = n
                /\ \A i \in 1..n : IsNaN(data[r][i])
          /\ call.t0 = None => tvec = <<>>
          /\ (call.t0 # None /\ mode = "Scroll")
             => /\ Len(tvec) = n
                /\ \A i \in 0..(n - 1) : tvec[i + 1] = call.t0[1] - (n - 1 - i) * p
                /\ At(tvec, -1) = call.t0[1]

C14_Witness ==
    /\ IsTS /\ call.name = "reset" /\ mode = "Scroll" /\ srate = 0
    /\ call.t0 # None /\ call.t0[1] > 4
    /\ Len(tvec) = 3
    /\ NCols(Pre.data) = 3 /\ \A i \in 1..3 : ~IsNaN(Pre.data[1][i])

\* C15: an update of an irregular text stream appends every (text, timestamp)
\* pair that survives the stale filter to the markers list that contents
\* returns, in Scroll mode as well as in Sweep mode.
C15_MarkersAppended ==
    (/\ UpdateReturned /\ srate = 0 /\ ~call.chunk.numeric /\ Len(call.kept) > 0
     /\ \A j \in 1..Len(call.kept) : call.kept[j] > 0)
    => LET k == Len(call.kept)
       IN /\ Len(marker_ts) >= k
          /\ LastN(marker_ts, k) = call.kept
          /\ LastN(markers, k) = [j \in 1..k |-> Signal(call.kept[j], VisRow(1))]

IsMerge == obj = "MergeLastOnlyBuffer"

\* a non-empty update of the snapshot buffer has returned
MergeUpdateReturned ==
    /\ IsMerge /\ call.name = "m_update" /\ ~call.raised
    /\ Len(call.chunk.timestamps) > 0

\* slot i of the snapshot buffer belongs to the source of the returned update
OwnSlot(i) ==
    call.source_id = None \/ chan_states[VisRow(i)].src = call.source_id[1]

\* the row of the chunk that carries the channel of slot i: its place among
\* the channels of its source, or among all channels without a source_id
ChunkRow(i) ==
    IF call.source_id = None THEN VisRow(i)
    ELSE Cardinality({c \in 1..VisRow(i) : chan_states[c].src = call.source_id[1]})

\* C16 (as stated): an update with a source_id leaves the slots of every
\* other source with the values they had before the call.
C16_OtherSlotsKept ==
    (MergeUpdateReturned /\ call.source_id # None /\ NCols(Pre.data) = 1)
    => \A i \in 1..Len(m_data) :
          (~OwnSlot(i) /\ i <= Len(Pre.data)) => m_data[i] = Pre.data[i]

\* C16 (amended): an update with a source_id leaves the slots of every other
\* source with the values they had before the call when the buffer is one
\* sample wide with one row per visible channel; otherwise the update resets
\* the buffer first and the slots of the other sources are zero.
C16_OtherSlotsKeptOrReset ==
    (MergeUpdateReturned /\ call.source_id # None)
    => LET fits == NCols(Pre.data) = 1 /\ Len(Pre.data) = Cardinality(VisRows)
       IN \A i \in 1..Len(m_data) :
             ~OwnSlot(i) => m_data[i] = (IF fits THEN Pre.data[i] ELSE <<Num(0)>>)

C16_Witness ==
    /\ MergeUpdateReturned /\ call.source_id = Some("A")
    /\ NCols(Pre.data) = 1 /\ Len(Pre.data) = 3 /\ Len(m_data) = 3
    /\ \E i \in 1..3 : ~OwnSlot(i) /\ m_data[i] # <<Num(0)>>
    /\ \E i \in 1..3 : OwnSlot(i) /\ m_data[i] # Pre.data[i]

\* C17: after a non-empty update the slots of the updating source hold the
\* values of the sample of the chunk with the greatest timestamp, whatever the
\* delivery order, and the single timestamp of the buffer is that timestamp.
C17_LatestSample ==
    MergeUpdateReturned
    => LET t_max == SetMax(Range(call.chunk.timestamps))
       IN /\ m_tvec = <<t_max>>
          /\ \A i \in 1..Len(m_data) :
                OwnSlot(i) => m_data[i] = <<Signal(t_max, ChunkRow(i))>>

C17_Witness ==
    /\ MergeUpdateReturned /\ call.source_id = Some("B")
    /\ Len(call.chunk.timestamps) = 2
    /\ call.chunk.timestamps[1] > call.chunk.timestamps[2]
    /\ Len(Pre.tvec) = 1 /\ Pre.tvec[1] > call.chunk.timestamps[1]
    /\ \E i \in 1..Len(m_data) : OwnSlot(i)

\* C18: the snapshot buffer never holds more than one sample per channel or
\* more than one timestamp, and after a non-empty update it has one row per
\* visible channel of the channel states passed to the update.
C18_OneSample ==
    IsMerge
    => /\ \A r \in 1..Len(m_data) : Len(m_data[r]) <= 1
       /\ Len(m_tvec) <= 1
       /\ (call.name = "m_update" /\ Len(call.chunk.timestamps) > 0)
          => Len(m_data) = Cardinality(VisRows)

C18_Witness ==
    /\ MergeUpdateReturned
    /\ NCols(Pre.data) = 1 /\ Len(Pre.tvec) = 1
    /\ Len(Pre.data) = 2 /\ Len(m_data) = 3

\* C19 (as stated): reset(n_channels) leaves the snapshot buffer one sample
\* wide, shape (n_channels, 1), every entry zero.
C19_ResetOneWide ==
    (IsMerge /\ call.name = "m_reset")
    => /\ Len(m_data) = call.n_chans
       /\ \A r \in 1..Len(m_data) : m_data[r] = <<Num(0)>>

\* C19 (amended): reset(n_channels, t0) with t0 given leaves the buffer one
\* sample wide, all zero, with t0 as its timestamp; reset(n_channels) without
\* t0 leaves it zero samples wide, shape (n_channels, 0), without a timestamp.
C19_ResetWidth ==
    (IsMerge /\ call.name = "m_reset")
    => /\ Len(m_data) = call.n_chans
       /\ call.t0 # None
          => /\ \A r \in 1..Len(m_data) : m_data[r] = <<Num(0)>>
             /\ m_tvec = call.t0
       /\ call.t0 = None
          => /\ \A r \in 1..Len(m_data) : m_data[r] = <<>>
             /\ m_tvec = <<>>

C19_Witness ==
    /\ IsMerge /\ call.name = "m_reset" /\ call.t0 = None
    /\ NCols(Pre.data) = 1 /\ Pre.data[1] # <<Num(0)>>
    /\ NCols(m_data) = 0


\* C20: while the renderer is frozen its render timer is not running and no
\* fetch/update cycle runs: whatever handler has just returned (add_source,
\* remove_source, a source-change notification, a visibility toggle, a
\* duration or mode change, freeze itself), the timer is stopped, and the
\* handler is not on_timer.
C20_FrozenNoCycle ==
    (obj = "Renderer" /\ frozen) => (~timer_active /\ call.name # "on_timer")

\* a renderer frozen by freeze() (its first source is in monitor mode), just
\* after one of the handlers that end in reset() has run on it with channels
\* to show
C20_Witness ==
    /\ obj = "Renderer" /\ frozen
    /\ monitor_mode # {}
    /\ Len(chan_states) > 0
    /\ Len(data_sources) = 2
    /\ call.name \in {"add_source", "chantree_itemChanged", "duration", "plot_mode"}

\* C21: whenever the renderer is frozen (and was built to flush on unfreeze,
\* the default), every registered source is in monitor mode and its own data
\* timer is running, also a source added while the renderer was frozen.
C21_FrozenSourcesMonitored ==
    (obj = "Renderer" /\ frozen /\ flush_on_unfreeze)
        => /\ SourceSet(RSelf) \subseteq monitor_mode
           /\ SourceSet(RSelf) \subseteq auto_timer

\* C22: when unfreeze() has returned on a frozen renderer built to flush on
\* unfreeze (the default), the renderer is not frozen, every registered source has had
\* its pending upstream queue flushed (nothing is left waiting in its inlet),
\* is out of monitor mode and has its data timer stopped, and the render timer
\* is running if there are channels to show.
C22_UnfreezeFlushes ==
    (obj = "Renderer" /\ call.name = "unfreeze" /\ call.was_frozen
     /\ flush_on_unfreeze)
        => /\ ~frozen
           /\ \A id \in SourceSet(RSelf) :
                /\ srcs[id].queue = <<>>
                /\ id \notin monitor_mode
                /\ id \notin auto_timer
           /\ (Len(chan_states) > 0 => timer_active)

VisibleChannels(cs, id) ==
    Cardinality({j \in 1..Len(cs) : cs[j].src = id /\ cs[j].vis})

\* C23: when add_source, remove_source or a source-change notification has
\* returned, the channel table has been rebuilt from the registered sources and
\* the renderer holds one buffer per registered source, in registration order,
\* freshly reset (no update received yet) to that source's number of visible
\* channels; a source that is not registered has no buffer.
C23_OneFreshBufferPerSource ==
    (obj = "Renderer"
     /\ call.name \in {"add_source", "remove_source", "handle_source_changed"})
        => /\ chan_states = SourceRows(data_sources)
           /\ Len(buffers) = Len(data_sources)
           /\ \A i \in 1..Len(buffers) :
                /\ buffers[i].updates = 0
                /\ Len(buffers[i].buffer.data)
                     = VisibleChannels(chan_states, data_sources[i])

\* source A has just been removed from a renderer that held A and B: the one
\* buffer left is B's, with B's two channels
C23_Witness ==
    /\ obj = "Renderer" /\ call.name = "remove_source"
    /\ call.src = "A" /\ call.before = <<"A", "B">>
    /\ data_sources = <<"B">>
    /\ Len(buffers) = 1 /\ Len(buffers[1].buffer.data) = 2

\* the number of channel descriptors of the first n of the sources ids
RECURSIVE ChannelsBefore(_, _)
ChannelsBefore(ids, n) ==
    IF n = 0 THEN 0 ELSE ChannelsBefore(ids, n - 1) + Len(data_stats(ids[n]))

\* C24: a rebuild of the channel states (by add_source, remove_source or a
\* source-change notification) leaves the descriptors of every registered
\* source, source after source in registration order and channel after channel
\* in the source's own order, each row tagged with the identifier of its
\* source; with no source registered the channel table is empty.
C24_RebuildConcatenates ==
    (obj = "Renderer"
     /\ call.name \in {"add_source", "remove_source", "handle_source_changed"})
        => /\ Len(chan_states) = ChannelsBefore(data_sources, Len(data_sources))
           /\ \A i \in 1..Len(data_sources) :
                \A j \in 1..Len(data_stats(data_sources[i])) :
                    LET row == chan_states[ChannelsBefore(data_sources, i - 1) + j]
                    IN /\ row.name = data_stats(data_sources[i])[j].name
                       /\ row.src = data_sources[i]

\* B was registered before A, and A has just been added: three rows
C24_Witness ==
    /\ obj = "Renderer" /\ call.name = "add_source"
    /\ call.src = "A" /\ data_sources = <<"B", "A">>
    /\ Len(chan_states) = 3

\* the last source has just been removed: no row is left
C24_WitnessEmpty ==
    /\ obj = "Renderer" /\ call.name = "remove_source"
    /\ call.before # <<>> /\ data_sources = <<>>
    /\ chan_states = <<>>

\* C25: when a toggle of one item of the channel tree has returned, the row of
\* that item has the item's check state and every other row of the channel
\* table is as it was, also when another source has a channel of that name.
C25_OneRowChanged ==
    (obj = "Renderer" /\ call.name = "chantree_itemChanged")
        => /\ Len(chan_states) = Len(call.before)
           /\ \A j \in 1..Len(chan_states) :
                IF j = call.item
                THEN chan_states[j] = [call.before[j] EXCEPT !.vis = call.is_checked]
                ELSE chan_states[j] = call.before[j]

\* the least number of whole sample periods of a stream of rate sr that cover
\* dur ticks
SamplesToCover(sr, dur) ==
    CHOOSE n \in 0..(dur + 1) :
        /\ n * TicksPerSecond >= EffRate(sr) * dur
        /\ (n - 1) * TicksPerSecond < EffRate(sr) * dur

\* C26: every buffer of the renderer has the renderer's plot mode, at all
\* times; and when a change of the plot mode or of the plotted duration has
\* returned, every source has a new buffer of the new mode and duration that
\* has received no update: one row per visible channel, a capacity computed
\* from the new duration, NaN in every slot and an empty time vector.
C26_ModeChangeReplacesBuffers ==
    obj = "Renderer"
    => /\ \A i \in 1..Len(buffers) : buffers[i].buffer.mode = plot_mode
       /\ call.name \in {"duration", "plot_mode"}
          => /\ Len(buffers) = Len(data_sources)
             /\ \A i \in 1..Len(buffers) :
                  LET b == buffers[i].buffer
                      n == SamplesToCover(SourceRate(data_sources[i]), r_duration)
                  IN /\ buffers[i].updates = 0
                     /\ b.duration = r_duration
                     /\ b.tvec = <<>>
                     /\ Len(b.data) = VisibleChannels(chan_states, data_sources[i])
                     /\ \A r \in 1..Len(b.data) :
                          /\ Len(b.data[r]) = n
                          /\ \A k \in 1..n : IsNaN(b.data[r][k])

\* the plot mode has just been changed on a renderer with two sources whose
\* buffers had both received updates under the old mode
C26_Witness ==
    /\ obj = "Renderer" /\ call.name = "plot_mode"
    /\ call.was # plot_mode
    /\ call.updated
    /\ Len(buffers) = 2

IsSource == obj = "LSLDataSource"

\* C27: a source hands out only samples it pulled. When update_requested has
\* returned: in monitor mode nothing was emitted and the inlet's queue is
\* empty; in normal mode the chunk emitted, if any, is not empty, and the
\* queue as it was is that chunk followed by what still waits (nothing was
\* emitted exactly when nothing was pulled); without an inlet nothing was
\* emitted and the source, its transfer statistics included, is as it was.
\* When fetch_data has returned: without an inlet the chunk is empty, else the
\* queue as it was is the chunk returned followed by what still waits.
C27_NoFabricatedData ==
    IsSource =>
        /\ call.name = "update_requested" =>
             LET now == srcs[call.src]
                 chunk == IF call.emitted = <<>> THEN <<>> ELSE call.emitted[1]
             IN /\ ~Pre.inlet =>
                     (call.emitted = <<>> /\ ~call.rate_emitted /\ now = Pre)
                /\ (Pre.inlet /\ call.monitor) =>
                     (call.emitted = <<>> /\ now.queue = <<>>)
                /\ (Pre.inlet /\ ~call.monitor) =>
                     /\ call.emitted # <<>> => chunk # <<>>
                     /\ Pre.queue = chunk \o now.queue
        /\ call.name = "fetch_data" =>
             LET now == srcs[call.src]
             IN /\ ~Pre.inlet => (call.data = <<>> /\ now = Pre)
                /\ Pre.inlet => Pre.queue = call.data \o now.queue

\* an update request in normal mode has emitted one of two waiting samples
C27_Witness ==
    /\ IsSource /\ call.name = "update_requested"
    /\ ~call.monitor /\ Pre.inlet
    /\ Len(Pre.queue) = 2 /\ Pre.queue[1] # Pre.queue[2]
    /\ call.emitted = << <<Pre.queue[1]>> >>

\* an update request in monitor mode has dropped two waiting samples
C27_WitnessMonitor ==
    /\ IsSource /\ call.name = "update_requested"
    /\ call.monitor /\ Len(Pre.queue) = 2 /\ srcs[call.src].queue = <<>>

\* an update request has returned from a source without inlet
C27_WitnessNoInlet ==
    /\ IsSource /\ call.name = "update_requested" /\ ~Pre.inlet

\* C28: when update has returned from a chunk with timestamps whose data has
\* a number of columns other than the number of timestamps, or a number of
\* rows other than the number of rows of the channel table, it has raised an
\* error and the buffer's data, time vector and write index are as they were.
C28_MismatchFailsFast ==
    (IsTS /\ call.name = "update"
     /\ Len(call.chunk.timestamps) > 0
     /\ \/ NCols(call.chunk.data) # Len(call.chunk.timestamps)
        \/ Len(call.chunk.data) # Len(chan_states))
        => /\ call.raised
           /\ data = Pre.data
           /\ tvec = Pre.tvec
           /\ write_idx = Pre.write_idx

\* a regular-rate Sweep update has written its kept samples, none of them
\* beyond the sweep, in one insertion: no overflow, no write-cursor indicator
OneSweepInsertion ==
    /\ UpdateReturned /\ mode = "Sweep" /\ srate > 0 /\ ~extend_write
    /\ Len(Pre.tvec) > 0
    /\ Len(call.kept) >= 1 /\ Len(call.kept) <= NCols(Pre.data)
    /\ \A j \in 1..Len(call.kept) : call.kept[j] <= At(Pre.tvec, -1) + Period(Self)

\* the slots the insertion wrote its samples to, as indices from 0
WrittenSlots ==
    {searchsorted_right(Pre.tvec, call.kept[j]) - 1 : j \in 1..Len(call.kept)}

FirstWritten == SetMin(WrittenSlots)

\* C29: when the first slot written by a Sweep insertion lies ahead of the
\* write cursor, every slot from the cursor up to that slot holds, on every
\* channel, the linear interpolation between the value the slot before the
\* cursor held (a confirmed value, not NaN) and the value of the first written
\* slot.
C29_GapInterpolated ==
    (/\ OneSweepInsertion /\ FirstWritten > Pre.write_idx
     /\ \A r \in 1..Len(Pre.data) : ~IsNaN(At(Pre.data[r], Pre.write_idx - 1)))
    => LET w == Pre.write_idx
           f == FirstWritten
       IN \A r \in 1..Len(data) : \A i \in w..(f - 1) :
            data[r][i + 1] = Interp(At(Pre.data[r], w - 1), data[r][f + 1],
                                    i - w + 1, f - w)

LastWritten == SetMax(WrittenSlots)

\* the slots inside the written range that no sample of the chunk was written to
SkippedSlots == {s \in FirstWritten..LastWritten : s \notin WrittenSlots}

\* C30: after a Sweep insertion every slot between the first and the last
\* written slot that received no sample of the chunk holds, on every channel,
\* the value of the latest sample of the chunk whose timestamp is before the
\* slot's expected time.
C30_SkippedHoldPreceding ==
    (OneSweepInsertion /\ FirstWritten >= 0)
    => \A s \in SkippedSlots :
         LET before == {t \in Range(call.kept) : t < Pre.tvec[s + 1]}
         IN before # {} /\ Holds(s + 1, SetMax(before))

\* the slots the write-cursor indicator blanks on a regular-rate buffer of
\* capacity n whose cursor is at w, as indices from 0
LookaheadSlots(w, n) == {(w + a) % n : a \in 0..(Max(1, n \div 100) - 1)}

\* C31: after an update that commits samples to a regular-rate Sweep buffer of
\* capacity > 2 with the write-cursor indicator on, the slot at write_idx and
\* the lookahead slots after it hold NaN on every channel, wherever the cursor
\* is.
C31_LookaheadBlank ==
    (/\ UpdateReturned /\ mode = "Sweep" /\ srate > 0 /\ extend_write
     /\ NCols(data) > 2 /\ Len(call.kept) > 0)
    => \A i \in LookaheadSlots(write_idx, NCols(data)) :
         \A r \in 1..Len(data) : IsNaN(data[r][i + 1])

\* a Sweep update of a text stream has committed markers
MarkersCarried ==
    /\ UpdateReturned /\ mode = "Sweep" /\ srate = 0 /\ ~call.chunk.numeric
    /\ Len(call.kept) > 0

\* the markers buffered before the update that are not more than duration
\* older than the oldest marker of the update
Retained ==
    [j \in 1..Len(Pre.marker_ts) |->
        SetMin(Range(call.kept)) - Pre.marker_ts[j] <= duration]

\* C32: after a Sweep update that carries markers the buffered markers are
\* the previously buffered markers not more than duration older than the
\* oldest marker of the update, followed by the markers of the update.
C32_MarkersPruned ==
    MarkersCarried
    => /\ marker_ts = Mask(Pre.marker_ts, Retained) \o call.kept
       /\ markers = Mask(Pre.markers, Retained)
                      \o [j \in 1..Len(call.kept) |-> Signal(call.kept[j], VisRow(1))]

\* the timestamp of the last sample an update committed: the last kept sample
\* of a regular-rate stream, the last sample of the dense series of an
\* irregular one
LastCommitted ==
    IF srate > 0 THEN At(call.kept, -1)
    ELSE LET b1 == Anchor(Pre, call.kept)
             lwt == last_write_time(b1)
         IN lwt + NFill(b1, call.kept, lwt) * Period(b1)

\* the number of samples an update committed: the kept samples of a
\* regular-rate stream, the samples of the dense series of an irregular one
NCommitted ==
    IF srate > 0 THEN Len(call.kept)
    ELSE LET b1 == Anchor(Pre, call.kept)
         IN NFill(b1, call.kept, last_write_time(b1))

\* a Sweep update of an anchored buffer has written its samples, none of them
\* beyond the sweep and no more than the buffer holds, in one insertion that
\* reached the last slot
LastSlotWritten ==
    /\ UpdateReturned /\ mode = "Sweep" /\ Len(Pre.tvec) > 0
    /\ Len(call.kept) > 0
    /\ NCommitted <= NCols(Pre.data)
    /\ LastCommitted <= At(Pre.tvec, -1) + Period(Self)
    /\ LastCommitted >= At(Pre.tvec, -1)

\* C33: when a Sweep insertion has written the last slot, the time vector is
\* that of the following sweep and the cursor is at the slot of that sweep
\* that comes next, for regular and irregular rates alike.
C33_ReanchoredPastEnd ==
    LastSlotWritten
    => /\ tvec[1] > At(Pre.tvec, -1)
       /\ tvec[write_idx + 1] <= At(Pre.tvec, -1) + Period(Self)
       /\ At(Pre.tvec, -1) + Period(Self) < tvec[write_idx + 1] + Period(Self)

\* a regular-rate Sweep update of an anchored buffer has committed samples
\* that all belong to a later sweep than the one the cursor was in
WrappedUpdate ==
    /\ UpdateReturned /\ mode = "Sweep" /\ srate > 0 /\ ~extend_write
    /\ Len(Pre.tvec) > 0
    /\ Len(call.kept) >= 1 /\ Len(call.kept) <= NCols(Pre.data)
    /\ \A j \in 1..Len(call.kept) : call.kept[j] > At(Pre.tvec, -1) + Period(Self)

\* slot i of row r held, before the update, a value that no sample of the
\* chunk carries on that row
HeldEarlierData(r, i) ==
    /\ ~IsNaN(Pre.data[r][i])
    /\ \A j \in 1..Len(call.kept) : Pre.data[r][i] # Signal(call.kept[j], VisRow(r))

\* C34: when the samples of a Sweep update belong to the following sweep, no
\* slot from the previous cursor to the end of the buffer, which the cursor
\* has passed over, retains the data it held from an earlier sweep.
C34_NoStaleTail ==
    WrappedUpdate
    => \A i \in (Pre.write_idx + 1)..NCols(Pre.data) : \A r \in 1..Len(data) :
         HeldEarlierData(r, i) => data[r][i] # Pre.data[r][i]

\* C35: in every state of a Sweep buffer with columns and an anchored time
\* vector the write cursor is a slot of the buffer: 0 <= write_idx < capacity.
C35_CursorInRange ==
    (IsTS /\ mode = "Sweep" /\ NCols(data) > 0 /\ Len(tvec) > 0)
    => /\ 0 <= write_idx
       /\ write_idx < NCols(data)
       /\ NCols(data) = Capacity(srate, duration)

\* an update has written the last slot of an irregular stream's sweep, and
\* the cursor has gone from the last slot to the first
C35_Witness ==
    /\ UpdateReturned /\ mode = "Sweep" /\ srate = 0
    /\ Len(Pre.tvec) > 0 /\ NCols(data) = 3
    /\ Pre.write_idx = 2 /\ write_idx = 0
    /\ Len(call.kept) > 0

\* a channel-state rebuild has just returned
Rebuilt ==
    /\ obj = "Renderer"
    /\ call.name \in {"add_source", "remove_source", "handle_source_changed"}

\* C36: after a channel-state rebuild the table has a row for every channel of
\* every registered source and every row is visible, whatever was hidden
\* before.
C36_RebuildShowsAll ==
    Rebuilt
    => /\ chan_states = SourceRows(data_sources)
       /\ \A i \in 1..Len(chan_states) : chan_states[i].vis

\* a source has signalled a change while a channel was hidden, and the table
\* still has rows
C36_Witness ==
    /\ Rebuilt /\ call.name = "handle_source_changed"
    /\ call.hidden
    /\ call.src \in SourceSet(RSelf)
    /\ Len(chan_states) = 3

\* C37: a change notification of a source that has been removed does not
\* reach the coordinator: handle_source_changed runs for registered sources
\* only.
C37_RemovedSourceSilent ==
    (obj = "Renderer" /\ call.name = "handle_source_changed")
    => call.src \in {call.before[i] : i \in 1..Len(call.before)}

\* C38: a fetch cycle of the merge coordinator returns without error and
\* leaves a snapshot with one slot per visible channel, whatever channels are
\* hidden.
C38_MergeFetchCompletes ==
    (obj = "RendererMergeDataSources" /\ call.name = "fetch_data")
    => /\ ~call.raised
       /\ Len(m_data) = VisCount(VisOf(chan_states))

\* the markers buffered before an update that the update keeps: in Sweep mode,
\* when it carries a marker with a non-zero timestamp, those not more than
\* duration older than its oldest marker; all of them otherwise
MarkersKept ==
    IF /\ mode = "Sweep" /\ ~call.chunk.numeric
       /\ \E j \in 1..Len(call.kept) : call.kept[j] # 0
    THEN [markers |-> Mask(Pre.markers, Retained),
          marker_ts |-> Mask(Pre.marker_ts, Retained)]
    ELSE [markers |-> Pre.markers, marker_ts |-> Pre.marker_ts]

\* C39: in every state of a TimeSeriesBuffer the marker texts and the marker
\* timestamps have the same length and correspond pairwise; reset leaves
\* them as they were, and so does the reset of an update that recovers from
\* overflow, after which the markers the update keeps are still buffered.
C39_MarkersParallel ==
    IsTS
    => /\ Len(markers) = Len(marker_ts)
       /\ \A j \in 1..Len(markers) : markers[j] = Signal(marker_ts[j], VisRow(1))
       /\ call.name = "reset"
            => markers = Pre.markers /\ marker_ts = Pre.marker_ts
       /\ (UpdateReturned /\ Len(call.kept) > 0 /\ Len(Pre.tvec) > 0
           /\ NCommitted > NCols(Pre.data))
            => /\ Len(markers) >= Len(MarkersKept.markers)
               /\ SubSeq(markers, 1, Len(MarkersKept.markers)) = MarkersKept.markers
               /\ SubSeq(marker_ts, 1, Len(MarkersKept.markers)) = MarkersKept.marker_ts

\* reset has returned on a buffer that holds two different markers
C39_Witness ==
    /\ IsTS /\ call.name = "reset"
    /\ Len(Pre.markers) = 2 /\ Pre.markers[1] # Pre.markers[2]
    /\ Len(markers) = 2

\* an update has recovered from overflow on a buffer that held a marker, and
\* still holds it
C39_WitnessOverflow ==
    /\ UpdateReturned /\ Len(call.kept) > 0 /\ Len(Pre.tvec) > 0
    /\ NCommitted > NCols(Pre.data)
    /\ Len(Pre.markers) > 0 /\ Len(MarkersKept.markers) > 0

=============================================================================
